---------------------------- MODULE Spec2Model ----------------------------
(***************************************************************************)
(* Model of the onnx-server request pipeline:                              *)
(*   - BatchExecutor  (src/src/inference/batch_executor.hpp)               *)
(*   - ModelRegistry  (src/src/inference/model_registry.hpp)               *)
(*   - Handlers::handle_infer, handle_reload_model                         *)
(*                    (src/src/server/handlers.hpp)                        *)
(*   - MetricsCollector, Histogram (src/src/metrics/collector.hpp)         *)
(* Threads are modelled by program counters; every step that runs under a  *)
(* mutex is one atomic action.                                             *)
(***************************************************************************)
EXTENDS Integers, Sequences, FiniteSets, TLC

(***************************************************************************)
(* Bounds of the model.                                                    *)
(***************************************************************************)
\* number of submit() calls explored
MaxReq == 3
\* largest max_batch_size / min_batch_size a configuration is drawn from
MaxBatchCfg == 2
\* file versions written to the models directory (the first one at startup)
MaxVer == 3
\* record_request calls explored
MaxCalls == 3
\* config_.max_wait_ms, in ticks of the clock
MaxWaitTicks == 2
\* the worker's wake-up latency (the spec's epsilon), in ticks
WakeLatency == 1
\* the clock stops at this tick
MaxTime == 5
\* submit() calls explored with the clock running
MaxTimedReq == 2
\* members of a Config given a value other than the default
MaxOverrides == 2
\* stop_watcher() calls followed
MaxStops == 2
\* capacity of the batch-size window (1000 in the code, scaled down)
WindowCap == 3
\* units per 1 of a printed average: five decimals
Scale == 100000
\* record_batch calls followed on the collector alone
MaxRecords == 4
\* worker threads of the pool, tasks passed to it, and shutdown() calls
\* made after the one that stopped it
PoolWorkers == 2
MaxTasks == 3
MaxAgain == 1
\* iterations of main's loop followed
MaxLoops == 3
\* output tensors of a model
MaxOutputs == 2
\* threads calling inc/dec on one gauge, calls begun, and largest delta
GaugeThreads == 2
MaxGaugeCalls == 2
MaxDelta == 1

\* model names: "a" has an artifact in the models directory, "b" has none
Models == {"a", "b"}

\* a ModelEntry: session (identity of the Ort::Session, 0 = none), ver (the
\* file version the session and its ModelInfo were read from), mtime
\* (last_modified).  NoEntry stands for "name is not a key of models_".
NoEntry == [session |-> 0, ver |-> 0, mtime |-> 0]

\* a file of the models directory: its version (which is also its mtime) and
\* whether the backend accepts it
NoFile == [ver |-> 0, good |-> FALSE]
NoSession == [id |-> 0, ver |-> 0]

VARIABLES
  \* ---- BatchExecutor ----
  config,            \* config_ : [enabled, max_batch_size, min_batch_size]
  running,           \* running_ (atomic<bool>)
  executor_thread,   \* executor_thread_: "none" | "alive" | "finished" (joinable)
  wpc,               \* position of the worker inside executor_loop
  pending_requests,  \* pending_requests_ (queue of request ids)
  batch,             \* the vector handed to process_batch
  todo,              \* requests of the batch not yet executed, in by_model order
  draining,          \* TRUE while the batch in process_batch came from drain_remaining
  reqModel,          \* request id -> request.model_name
  promise,           \* request id -> [future, sets, value]
  batches_total,     \* metrics_.record_batch calls
  mainPc,            \* position of the main thread (start / stop / join)
  \* ---- history of the scheduler ----
  enqueued,          \* request ids in the order submit() pushed them
  dispatched,        \* every vector handed to process_batch, in order
  runOrder,          \* request ids in the order the worker called run_inference
  \* ---- ModelRegistry ----
  models,            \* models_ : name -> ModelEntry (NoEntry when absent)
  readers,           \* threads holding mutex_ shared across a backend call
  watcher,           \* watcher thread: [pc, left, name, mod_time, sess, to_remove]
  reloader,          \* a thread inside reload(): [pc, name, sess, result, fail]
  handler,           \* a thread inside handle_infer
  aborted,           \* std::terminate was called
  \* ---- environment: the models directory ----
  files,             \* name -> file (NoFile when <name>.onnx does not exist)
  \* ---- history of the registry ----
  lastVer,           \* versions written so far
  reloadedVer,       \* name -> file version of the last reload() that returned
                     \* true (0: none, or the file was deleted since)
  \* ---- MetricsCollector ----
  request_counts,    \* request_counts_ : key -> Counter (unordered_map)
  requests_total,    \* requests_total_
  request_errors,    \* request_errors_
  request_latency,   \* request_latency_ : Histogram [sum, count, buckets]
  caller,            \* thread -> its position inside record_request
  \* ---- history of the metrics ----
  observed,          \* latency -> number of observe(latency) calls begun
  \* ---- time, in ticks ----
  now,               \* std::chrono::steady_clock::now()
  enqueue_time,      \* request id -> PendingRequest::enqueue_time
  dispatch_time,     \* for every vector handed to process_batch, the time at
                     \* which it was detached from the queue
  \* ---- MetricsCollector::export_prometheus ----
  exporter,          \* a thread inside export_histogram(request_latency_)
  \* ---- Config ----
  conf,              \* a Config object c, to_json() of it, and the Config
                     \* parse_json makes of that: [pc, c, json, parsed]
  \* ---- ModelRegistry::initialize ----
  boot,              \* [pc, dir_exists, hot_reload, running (the registry's
                     \* running_), stop (position of a stop_watcher() caller),
                     \* stops (stop_watcher() calls that have returned)]
  \* ---- a caller of has / count / get / list ----
  reader,            \* [pc, op, name, result]
  \* ---- MetricsCollector: the batch-size window ----
  window,            \* [sizes (batch_sizes_), avg (the onnx_average_batch_size
                     \* line of the last export)]
  \* ---- a Gauge and the threads calling inc/dec on it ----
  gauge,             \* [value (value_), init, calls, applied, refused, wins, th]
  \* ---- one SessionManager::run_inference call ----
  run,               \* [pc, types, throws, i, response]
  \* ---- main() and the HTTP server it starts ----
  srv,               \* [main, thread, running, signal, loops]
  \* ---- a ThreadPool ----
  pool               \* [stop, tasks, worker, sub, sd, accepted, rejected, ran,
                     \* done, again]

schedVars == <<config, running, executor_thread, wpc, pending_requests, batch,
               todo, draining, reqModel, promise, batches_total, mainPc,
               enqueued, dispatched, runOrder>>
regVars == <<models, readers, watcher, reloader, handler, aborted, files,
             lastVer, reloadedVer>>
metVars == <<request_counts, requests_total, request_errors, request_latency,
             caller, observed>>
timeVars == <<now, enqueue_time, dispatch_time>>
expVars == <<exporter>>
bootVars == <<conf, boot>>
lockVars == <<reader>>
objVars == <<gauge, run, srv, pool>>
exceptGauge == <<run, srv, pool>>
exceptRun == <<gauge, srv, pool>>
exceptSrv == <<gauge, run, pool>>
exceptPool == <<gauge, run, srv>>
lateVars == <<window, objVars>>
untimedAux == <<expVars, bootVars, lockVars, lateVars>>
auxVars == <<timeVars, untimedAux>>
vars == <<schedVars, regVars, metVars, auxVars>>

(***************************************************************************)
(* Helpers                                                                 *)
(***************************************************************************)
Min(x, y) == IF x <= y THEN x ELSE y

RECURSIVE Flatten(_)
Flatten(ss) == IF ss = <<>> THEN <<>> ELSE Head(ss) \o Flatten(Tail(ss))

Range(s) == {s[i] : i \in 1..Len(s)}

RECURSIVE Perms(_)
Perms(S) == IF S = {} THEN {<<>>}
            ELSE UNION {{<<x>> \o p : p \in Perms(S \ {x})} : x \in S}

(***************************************************************************)
(* ModelRegistry::has / run_inference as seen by a caller.                 *)
(* A response is summarised by its kind:                                   *)
(*   "ok"            success = true                                        *)
(*   "not_found"     success = false, "Model not found: <name>"            *)
(*   "backend_error" success = false (Ort::Exception caught by the         *)
(*                   SessionManager)                                       *)
(* "exception" stands for run_inference throwing a std::exception that is  *)
(* not an Ort::Exception.                                                  *)
(***************************************************************************)
Has_IgnoresEnd(name) == TRUE
Has(name) == models[name] # NoEntry

SessionRunOutcomes == {"ok", "backend_error", "exception"}

InferOutcomes(name) ==
  IF ~Has(name) THEN {"not_found"} ELSE SessionRunOutcomes

Success(value) == value = "ok"

(***************************************************************************)
(* BatchExecutor                                                           *)
(***************************************************************************)
\* a PendingRequest's promise: whether get_future() was handed to the caller,
\* the number of set_value calls, and the response set: its kind (value) and
\* its queue_time_ms (0 is the member's initial value)
NewPromise == [future |-> FALSE, sets |-> 0, value |-> "none",
               queue_time_ms |-> 0]

\* promise.set_value(response)
SetValue(p, v, q) ==
  [p EXCEPT !.sets = @ + 1, !.value = v, !.queue_time_ms = q]

\* queue_ms in process_batch: now() - pending->enqueue_time, read in the loop
\* right before the request's run_inference
QueueMs(id) == now - enqueue_time[id]

\* the catch block of process_batch turns an exception into an error response
WorkerResponse(out) == IF out = "exception" THEN "caught_exception" ELSE out

\* should_flush_batch(); aged: the front request's age is >= max_wait_ms
ShouldFlushBatch_IgnoresAge(aged) == pending_requests # <<>>
ShouldFlushBatch(aged) ==
  IF pending_requests = <<>> THEN FALSE ELSE aged

\* batch_size = min(pending_requests_.size(), config_.max_batch_size)
BatchSize == Min(Len(pending_requests), config.max_batch_size)

\* the front()/pop() loop of executor_loop: what is moved into the batch ...
TakeFront_FromBack(q, n) == SubSeq(q, Len(q) - n + 1, Len(q))
TakeFront(q, n) == SubSeq(q, 1, n)

\* ... and what stays in the queue
PopFront_NoPop(q, n) == q
PopFront(q, n) == SubSeq(q, n + 1, Len(q))

\* the requests of one model, in batch order (by_model[name].push_back)
GroupReversed(b, name) ==
  LET g == SelectSeq(b, LAMBDA id : reqModel[id] = name)
  IN [i \in 1..Len(g) |-> g[Len(g) + 1 - i]]

GroupOf(b, name) == SelectSeq(b, LAMBDA id : reqModel[id] = name)

\* by_model is an unordered_map: its iteration order is any order of its keys
GroupOrders(b) == Perms({reqModel[b[i]] : i \in 1..Len(b)})

RECURSIVE ConcatGroups(_, _)
ConcatGroups(b, order) ==
  IF order = <<>> THEN <<>>
  ELSE GroupOf(b, Head(order)) \o ConcatGroups(b, Tail(order))

\* BatchExecutor::start()
Start_SpawnsWhenDisabled ==
  /\ mainPc = "init"
  /\ mainPc' = "serving"
  /\ running' = TRUE
  /\ executor_thread' = "alive"
  /\ wpc' = "check"
  /\ UNCHANGED <<config, pending_requests, batch, todo, draining, reqModel,
                 promise, batches_total, enqueued, dispatched, runOrder>>
  /\ UNCHANGED <<regVars, metVars, auxVars>>

Start ==
  /\ mainPc = "init"
  /\ mainPc' = "serving"
  /\ IF ~config.enabled
       THEN UNCHANGED <<running, executor_thread, wpc>>
       ELSE /\ running' = TRUE
            /\ executor_thread' = "alive"
            /\ wpc' = "check"
  /\ UNCHANGED <<config, pending_requests, batch, todo, draining, reqModel,
                 promise, batches_total, enqueued, dispatched, runOrder>>
  /\ UNCHANGED <<regVars, metVars, auxVars>>

\* BatchExecutor::stop() up to the join
Stop ==
  /\ mainPc = "serving"
  /\ IF ~running
       THEN mainPc' = "stopped" /\ UNCHANGED running
       ELSE running' = FALSE /\ mainPc' = "joining"
  /\ UNCHANGED <<config, executor_thread, wpc, pending_requests, batch, todo,
                 draining, reqModel, promise, batches_total, enqueued,
                 dispatched, runOrder>>
  /\ UNCHANGED <<regVars, metVars, auxVars>>

\* executor_thread_.join() returns and stop() with it
StopJoin ==
  /\ mainPc = "joining"
  /\ executor_thread = "finished"
  /\ executor_thread' = "none"
  /\ mainPc' = "stopped"
  /\ UNCHANGED <<config, running, wpc, pending_requests, batch, todo, draining,
                 reqModel, promise, batches_total, enqueued, dispatched,
                 runOrder>>
  /\ UNCHANGED <<regVars, metVars, auxVars>>

\* BatchExecutor::start() called again, after the first start() has returned
\* and no stop() is in progress.  The std::thread of the new worker is
\* move-assigned to executor_thread_: when executor_thread_ is still joinable
\* (no stop() has joined it) the assignment calls std::terminate.
StartAgain ==
  /\ ~aborted
  /\ mainPc \in {"serving", "stopped"}
  /\ mainPc' = "serving"
  /\ IF ~config.enabled
       THEN UNCHANGED <<running, executor_thread, wpc, aborted>>
       ELSE /\ running' = TRUE
            /\ IF executor_thread # "none"
                 THEN /\ aborted' = TRUE
                      /\ UNCHANGED <<executor_thread, wpc>>
                 ELSE /\ executor_thread' = "alive"
                      /\ wpc' = "check"
                      /\ UNCHANGED aborted
  /\ UNCHANGED <<config, pending_requests, batch, todo, draining, reqModel,
                 promise, batches_total, enqueued, dispatched, runOrder>>
  /\ UNCHANGED <<models, readers, watcher, reloader, handler, files, lastVer,
                 reloadedVer>>
  /\ UNCHANGED <<metVars, auxVars>>

\* BatchExecutor::submit(request) for a request naming model name
Submit(name, out) ==
  /\ reqModel' = Append(reqModel, name)
  /\ IF ~config.enabled
       THEN /\ out \in InferOutcomes(name)
            /\ promise' = Append(promise,
                 IF out = "exception"
                   THEN NewPromise
                   ELSE SetValue([NewPromise EXCEPT !.future = TRUE], out, 0))
            /\ UNCHANGED <<pending_requests, enqueued>>
       ELSE /\ out = "ok"
            /\ promise' = Append(promise, [NewPromise EXCEPT !.future = TRUE])
            /\ pending_requests' = Append(pending_requests, Len(reqModel) + 1)
            /\ enqueued' = Append(enqueued, Len(reqModel) + 1)
  /\ enqueue_time' = Append(enqueue_time, now)
  /\ UNCHANGED <<config, running, executor_thread, wpc, batch, todo, draining,
                 batches_total, mainPc, dispatched, runOrder>>
  /\ UNCHANGED <<now, dispatch_time>>
  /\ UNCHANGED <<regVars, metVars, untimedAux>>

\* executor_loop: while (running_)
WorkerCheck ==
  /\ wpc = "check"
  /\ wpc' = IF running THEN "wait" ELSE "drain"
  /\ UNCHANGED <<config, running, executor_thread, pending_requests, batch,
                 todo, draining, reqModel, promise, batches_total, mainPc,
                 enqueued, dispatched, runOrder>>
  /\ UNCHANGED <<regVars, metVars, auxVars>>

\* executor_loop: the block under queue_mutex_, entered when wait_for returns
\* (predicate true or timeout), up to the hand-over to process_batch
WorkerIterate(aged, order) ==
  /\ wpc = "wait"
  /\ IF ~running /\ pending_requests = <<>>
       THEN /\ wpc' = "drain"
            /\ order = <<>>
            /\ UNCHANGED <<pending_requests, batch, todo, dispatched>>
       ELSE IF Len(pending_requests) >= config.min_batch_size
               \/ ShouldFlushBatch(aged)
         THEN LET b == TakeFront(pending_requests, BatchSize) IN
              /\ pending_requests' = PopFront(pending_requests, BatchSize)
              /\ order \in GroupOrders(b)
              /\ IF b # <<>>
                   THEN /\ batch' = b
                        /\ todo' = ConcatGroups(b, order)
                        /\ dispatched' = Append(dispatched, b)
                        /\ wpc' = "proc"
                   ELSE /\ wpc' = "check"
                        /\ UNCHANGED <<batch, todo, dispatched>>
         ELSE /\ wpc' = "check"
              /\ order = <<>>
              /\ UNCHANGED <<pending_requests, batch, todo, dispatched>>
  /\ draining' = FALSE
  /\ dispatch_time' = IF dispatched' # dispatched
                        THEN Append(dispatch_time, now) ELSE dispatch_time
  /\ UNCHANGED <<config, running, executor_thread, reqModel, promise,
                 batches_total, mainPc, enqueued, runOrder>>
  /\ UNCHANGED <<now, enqueue_time>>
  /\ UNCHANGED <<regVars, metVars, untimedAux>>

\* process_batch: one pass of the inner loop (run_inference, set_value)
ProcessOne_NoCatch(out) ==
  /\ wpc = "proc"
  /\ todo # <<>>
  /\ out \in InferOutcomes(reqModel[Head(todo)])
  /\ IF out = "exception"
       THEN /\ wpc' = "off"
            /\ executor_thread' = "finished"
            /\ UNCHANGED <<promise, runOrder, todo>>
       ELSE /\ promise' = [promise EXCEPT ![Head(todo)] =
                             SetValue(@, out, QueueMs(Head(todo)))]
            /\ runOrder' = Append(runOrder, Head(todo))
            /\ todo' = Tail(todo)
            /\ UNCHANGED <<wpc, executor_thread>>
  /\ UNCHANGED <<config, running, pending_requests, batch, draining, reqModel,
                 batches_total, mainPc, enqueued, dispatched>>
  /\ UNCHANGED <<regVars, metVars, auxVars>>

ProcessOne(out) ==
  /\ wpc = "proc"
  /\ todo # <<>>
  /\ out \in InferOutcomes(reqModel[Head(todo)])
  /\ promise' = [promise EXCEPT ![Head(todo)] =
                    SetValue(@, WorkerResponse(out), QueueMs(Head(todo)))]
  /\ runOrder' = Append(runOrder, Head(todo))
  /\ todo' = Tail(todo)
  /\ UNCHANGED <<config, running, executor_thread, wpc, pending_requests,
                 batch, draining, reqModel, batches_total, mainPc, enqueued,
                 dispatched>>
  /\ UNCHANGED <<regVars, metVars, auxVars>>

\* record_batch under mutex_: push_back, then erase(begin()) above the
\* capacity
PushWindow_DropsNewest(sizes, batch_size) ==
  IF Len(sizes) + 1 > WindowCap THEN sizes ELSE Append(sizes, batch_size)
PushWindow(sizes, batch_size) ==
  IF Len(sizes) + 1 > WindowCap
    THEN Tail(Append(sizes, batch_size))
    ELSE Append(sizes, batch_size)

\* the collector after record_batch(batch_size, _); calls is the history of
\* the sizes passed
Recorded(w, batch_size) ==
  [w EXCEPT !.sizes = PushWindow(@, batch_size),
            !.calls = Append(@, batch_size)]

\* process_batch: record_batch and return, to the loop or out of the thread
FinishBatch ==
  /\ wpc = "proc"
  /\ todo = <<>>
  /\ batches_total' = batches_total + 1
  /\ batch' = <<>>
  /\ IF draining
       THEN wpc' = "off" /\ executor_thread' = "finished"
       ELSE wpc' = "check" /\ UNCHANGED executor_thread
  /\ window' = Recorded(window, Len(batch))
  /\ UNCHANGED <<config, running, pending_requests, todo, draining, reqModel,
                 promise, mainPc, enqueued, dispatched, runOrder>>
  /\ UNCHANGED <<expVars, bootVars, lockVars, timeVars, objVars>>
  /\ UNCHANGED <<regVars, metVars>>

\* drain_remaining
WorkerDrain(order) ==
  /\ wpc = "drain"
  /\ pending_requests' = <<>>
  /\ order \in GroupOrders(pending_requests)
  /\ IF pending_requests # <<>>
       THEN /\ batch' = pending_requests
            /\ todo' = ConcatGroups(pending_requests, order)
            /\ dispatched' = Append(dispatched, pending_requests)
            /\ draining' = TRUE
            /\ wpc' = "proc"
            /\ UNCHANGED executor_thread
       ELSE /\ wpc' = "off"
            /\ executor_thread' = "finished"
            /\ UNCHANGED <<batch, todo, dispatched, draining>>
  /\ dispatch_time' = IF dispatched' # dispatched
                        THEN Append(dispatch_time, now) ELSE dispatch_time
  /\ UNCHANGED <<config, running, reqModel, promise, batches_total, mainPc,
                 enqueued, runOrder>>
  /\ UNCHANGED <<now, enqueue_time>>
  /\ UNCHANGED <<regVars, metVars, untimedAux>>

(***************************************************************************)
(* The models directory (environment)                                      *)
(***************************************************************************)
\* a file <name>.onnx is written (created or overwritten)
FileWrite(name, good) ==
  /\ ~aborted
  /\ lastVer < MaxVer
  /\ lastVer' = lastVer + 1
  /\ files' = [files EXCEPT ![name] = [ver |-> lastVer + 1, good |-> good]]
  /\ UNCHANGED <<models, readers, watcher, reloader, handler, aborted,
                 reloadedVer>>
  /\ UNCHANGED <<schedVars, metVars, auxVars>>

\* a file <name>.onnx is deleted
FileDelete(name) ==
  /\ ~aborted
  /\ files[name] # NoFile
  /\ files' = [files EXCEPT ![name] = NoFile]
  /\ reloadedVer' = [reloadedVer EXCEPT ![name] = 0]
  /\ UNCHANGED <<models, readers, watcher, reloader, handler, aborted,
                 lastVer>>
  /\ UNCHANGED <<schedVars, metVars, auxVars>>

(***************************************************************************)
(* ModelRegistry                                                           *)
(***************************************************************************)
\* std::unique_lock lock(mutex_): waits until no reader holds the lock.
\* Writers hold it for one atomic step, so no writer flag is needed.
CanLockUnique_IgnoreReaders == TRUE
CanLockUnique == readers = {}

\* session_manager_.load_model(path, name): the Ort::Session constructor throws
\* when the file is missing or is rejected
CanCreateSession(name) == files[name] # NoFile /\ files[name].good

\* the identity of a new session: any identity no live session has (the
\* least, here)
LiveSessions == {models[n].session : n \in Models}
                  \cup {watcher.sess.id, reloader.sess.id}
FreshSession == CHOOSE i \in 1..(Cardinality(Models) + 3) : i \notin LiveSessions

CreatedSession(name) == [id |-> FreshSession, ver |-> files[name].ver]

\* load_model under the unique lock: fs::last_write_time(path) throws when the
\* file is gone (nothing is stored), otherwise models_[name] = entry
CommittedModels_PartialEntry(name, sess) ==
  IF files[name] = NoFile
    THEN [models EXCEPT ![name] = [session |-> sess.id, ver |-> sess.ver,
                                   mtime |-> 0]]
    ELSE [models EXCEPT ![name] = [session |-> sess.id, ver |-> sess.ver,
                                   mtime |-> files[name].ver]]
CommittedModels(name, sess) ==
  IF files[name] = NoFile
    THEN models
    ELSE [models EXCEPT ![name] = [session |-> sess.id, ver |-> sess.ver,
                                   mtime |-> files[name].ver]]

WatcherIdle == [pc |-> "sleep", left |-> {}, name |-> "", mod_time |-> 0,
                sess |-> NoSession, to_remove |-> {}]
ReloaderIdle == [pc |-> "idle", name |-> "", sess |-> NoSession,
                 result |-> "none", fail |-> "none"]
HandlerIdle == [pc |-> "idle", name |-> "", session |-> 0, ver |-> 0,
                floor |-> 0, resp |-> "none", status |-> 0, message |-> ""]

\* ---- reload(name) ----
\* the lookup under the shared lock
ReloadBegin(name) ==
  /\ ~aborted
  /\ reloader.pc = "idle"
  /\ reloader' = IF ~Has(name)
       THEN [ReloaderIdle EXCEPT !.result = "false", !.fail = "absent"]
       ELSE [ReloaderIdle EXCEPT !.name = name, !.pc = "create"]
  /\ UNCHANGED <<models, readers, watcher, handler, aborted, files, lastVer,
                 reloadedVer>>
  /\ UNCHANGED <<schedVars, metVars, auxVars>>

\* load_model: session_manager_.load_model, outside the lock
ReloadCreate ==
  /\ ~aborted
  /\ reloader.pc = "create"
  /\ IF CanCreateSession(reloader.name)
       THEN /\ reloader' = [reloader EXCEPT !.pc = "commit",
                              !.sess = CreatedSession(reloader.name)]
       ELSE /\ reloader' = [ReloaderIdle EXCEPT !.result = "false",
                                                !.fail = "backend"]
  /\ UNCHANGED <<models, readers, watcher, handler, aborted, files, lastVer,
                 reloadedVer>>
  /\ UNCHANGED <<schedVars, metVars, auxVars>>

\* load_model: the block under the unique lock, and reload's return
ReloadCommit ==
  /\ ~aborted
  /\ reloader.pc = "commit"
  /\ CanLockUnique
  /\ models' = CommittedModels(reloader.name, reloader.sess)
  /\ IF files[reloader.name] = NoFile
       THEN /\ reloader' = [ReloaderIdle EXCEPT !.result = "false",
                                                !.fail = "mtime"]
            /\ UNCHANGED reloadedVer
       ELSE /\ reloader' = [ReloaderIdle EXCEPT !.result = "true"]
            /\ reloadedVer' = [reloadedVer EXCEPT ![reloader.name] =
                                 reloader.sess.ver]
  /\ UNCHANGED <<readers, watcher, handler, aborted, files, lastVer>>
  /\ UNCHANGED <<schedVars, metVars, auxVars>>

\* ---- watcher thread: check_for_changes ----
\* the sleep is over; directory_iterator lists the files present
WatcherTick ==
  /\ ~aborted
  /\ watcher.pc = "sleep"
  /\ watcher' = [WatcherIdle EXCEPT !.pc = "iter",
                   !.left = {n \in Models : files[n] # NoFile}]
  /\ UNCHANGED <<models, readers, reloader, handler, aborted, files, lastVer,
                 reloadedVer>>
  /\ UNCHANGED <<schedVars, metVars, auxVars>>

\* next directory entry: is_regular_file() and fs::last_write_time(path).
\* For a file deleted since the listing, is_regular_file() is either the type
\* cached by the iterator (then last_write_time throws out of the thread:
\* std::terminate) or a fresh status (then the entry is skipped).
WatcherStat(name, cached) ==
  /\ ~aborted
  /\ watcher.pc = "iter"
  /\ name \in watcher.left
  /\ IF files[name] = NoFile
       THEN IF cached
              THEN /\ watcher' = [watcher EXCEPT !.pc = "aborted"]
                   /\ aborted' = TRUE
              ELSE /\ watcher' = [watcher EXCEPT !.left = @ \ {name}]
                   /\ UNCHANGED aborted
       ELSE /\ cached
            /\ watcher' = [watcher EXCEPT !.pc = "compare",
                             !.left = @ \ {name}, !.name = name,
                             !.mod_time = files[name].ver]
            /\ UNCHANGED aborted
  /\ UNCHANGED <<models, readers, reloader, handler, files, lastVer,
                 reloadedVer>>
  /\ UNCHANGED <<schedVars, metVars, auxVars>>

\* the lookup under the shared lock: new model, modified model, or neither
WatcherCompare ==
  /\ ~aborted
  /\ watcher.pc = "compare"
  /\ watcher' =
       IF ~Has(watcher.name) THEN [watcher EXCEPT !.pc = "create"]
       ELSE IF models[watcher.name].mtime # watcher.mod_time
         THEN [watcher EXCEPT !.pc = "create"]
       ELSE [watcher EXCEPT !.pc = "iter", !.name = "", !.mod_time = 0]
  /\ UNCHANGED <<models, readers, reloader, handler, aborted, files, lastVer,
                 reloadedVer>>
  /\ UNCHANGED <<schedVars, metVars, auxVars>>

\* load_model: session_manager_.load_model, outside the lock
WatcherCreate ==
  /\ ~aborted
  /\ watcher.pc = "create"
  /\ IF CanCreateSession(watcher.name)
       THEN /\ watcher' = [watcher EXCEPT !.pc = "commit",
                             !.sess = CreatedSession(watcher.name)]
       ELSE /\ watcher' = [watcher EXCEPT !.pc = "iter", !.name = "",
                                         !.mod_time = 0]
  /\ UNCHANGED <<models, readers, reloader, handler, aborted, files, lastVer,
                 reloadedVer>>
  /\ UNCHANGED <<schedVars, metVars, auxVars>>

\* load_model: the block under the unique lock
WatcherCommit ==
  /\ ~aborted
  /\ watcher.pc = "commit"
  /\ CanLockUnique
  /\ models' = CommittedModels(watcher.name, watcher.sess)
  /\ watcher' = [watcher EXCEPT !.pc = "iter", !.sess = NoSession,
                                !.name = "", !.mod_time = 0]
  /\ UNCHANGED <<readers, reloader, handler, aborted, files, lastVer,
                 reloadedVer>>
  /\ UNCHANGED <<schedVars, metVars, auxVars>>

\* the directory loop is over: collect, under the shared lock, the mapped
\* names whose file no longer exists
WatcherScanRemoved ==
  /\ ~aborted
  /\ watcher.pc = "iter"
  /\ watcher.left = {}
  /\ LET gone == {n \in Models : Has(n) /\ files[n] = NoFile}
     IN watcher' = IF gone = {} THEN WatcherIdle
                    ELSE [watcher EXCEPT !.pc = "erase", !.to_remove = gone]
  /\ UNCHANGED <<models, readers, reloader, handler, aborted, files, lastVer,
                 reloadedVer>>
  /\ UNCHANGED <<schedVars, metVars, auxVars>>

\* models_.erase(name) for every collected name, under the unique lock
WatcherErase_Clears ==
  /\ ~aborted
  /\ watcher.pc = "erase"
  /\ CanLockUnique
  /\ models' = [n \in Models |-> NoEntry]
  /\ watcher' = WatcherIdle
  /\ UNCHANGED <<readers, reloader, handler, aborted, files, lastVer,
                 reloadedVer>>
  /\ UNCHANGED <<schedVars, metVars, auxVars>>
WatcherErase ==
  /\ ~aborted
  /\ watcher.pc = "erase"
  /\ CanLockUnique
  /\ models' = [n \in Models |->
                  IF n \in watcher.to_remove THEN NoEntry ELSE models[n]]
  /\ watcher' = WatcherIdle
  /\ UNCHANGED <<readers, reloader, handler, aborted, files, lastVer,
                 reloadedVer>>
  /\ UNCHANGED <<schedVars, metVars, auxVars>>

(***************************************************************************)
(* The read operations of ModelRegistry: has, count, get, list             *)
(***************************************************************************)
ReadOps == {"has", "count", "get", "list"}

ReaderIdle == [pc |-> "idle", op |-> "", name |-> "", result |-> <<>>]

InitReader == reader = ReaderIdle

(***************************************************************************)
(* MetricsCollector: record_batch's window and the exported average        *)
(***************************************************************************)
\* no onnx_average_batch_size line (the window was empty at the export)
AvgNone == [n |-> 0, sum |-> 0, printed |-> 0]

NewWindow == [sizes |-> <<>>, calls |-> <<>>, avg |-> AvgNone]

(***************************************************************************)
(* Gauge: inc/dec as a compare-exchange loop                               *)
(***************************************************************************)
GaugeThread == 1..GaugeThreads

\* a thread outside inc/dec
GaugeOut == [pc |-> "out", delta |-> 0, old_val |-> 0, new_val |-> 0, lost |-> 0]

\* value_{0.0}; init is the value the calls started from, calls the number
\* of inc/dec calls begun, applied the sum of the deltas of the completed
\* calls, wins[t] the number of successful exchanges of thread t, refused
\* the number of exchanges refused for a changed value
NewGauge ==
  [value |-> 0, init |-> 0, calls |-> 0, applied |-> 0, refused |-> 0,
   wins |-> [t \in GaugeThread |-> 0],
   th |-> [t \in GaugeThread |-> GaugeOut]]

(***************************************************************************)
(* SessionManager::run_inference: the outputs of a run                     *)
(***************************************************************************)
\* ONNXTensorElementDataType values: the three run_inference reads, three
\* more of onnx_type_to_string's table, and one outside the table
ElementTypes == {"FLOAT", "INT64", "INT32", "DOUBLE", "BOOL", "STRING", "FLOAT16"}

onnx_type_to_string(type) ==
  CASE type = "FLOAT"  -> "float32"
    [] type = "DOUBLE" -> "float64"
    [] type = "INT32"  -> "int32"
    [] type = "INT64"  -> "int64"
    [] type = "BOOL"   -> "bool"
    [] type = "STRING" -> "string"
    [] OTHER           -> "unknown"

\* a TensorData of the response: dtype and which data vector was filled
\* (dtype = "float32" by default, all vectors empty)
ExtractOutput(type) ==
  CASE type = "FLOAT" -> [dtype |-> "float32", data |-> "float_data"]
    [] type = "INT64" -> [dtype |-> "int64", data |-> "int_data"]
    [] type = "INT32" -> [dtype |-> "int32", data |-> "int_data"]
    [] OTHER          -> [dtype |-> "float32", data |-> "none"]

\* InferenceResponse response; (success = false, no outputs, no error)
NoResponse == [success |-> FALSE, outputs |-> <<>>, error |-> FALSE]

RunIdle ==
  [pc |-> "idle", types |-> <<>>, throws |-> FALSE, i |-> 0,
   response |-> NoResponse]

\* run_inference is called on a session whose outputs have the element
\* types `types'; throws says whether session.Run throws Ort::Exception
RunCall(types, throws) ==
  /\ run.pc = "idle"
  /\ run' = [RunIdle EXCEPT !.pc = "run", !.types = types, !.throws = throws]
  /\ UNCHANGED <<expVars, bootVars, lockVars, timeVars, window, exceptRun>>
  /\ UNCHANGED <<schedVars, regVars, metVars>>

\* session.Run: returns the output tensors, or throws into the catch block
SessionRun ==
  /\ run.pc = "run"
  /\ run' = IF run.throws
              THEN [run EXCEPT !.pc = "returned", !.response.error = TRUE]
              ELSE [run EXCEPT !.pc = "extract", !.i = 1]
  /\ UNCHANGED <<expVars, bootVars, lockVars, timeVars, window, exceptRun>>
  /\ UNCHANGED <<schedVars, regVars, metVars>>

\* the extraction loop: one output tensor
ExtractOne ==
  /\ run.pc = "extract"
  /\ run.i <= Len(run.types)
  /\ run' = [run EXCEPT !.i = @ + 1,
                        !.response.outputs =
                           Append(@, ExtractOutput(run.types[run.i]))]
  /\ UNCHANGED <<expVars, bootVars, lockVars, timeVars, window, exceptRun>>
  /\ UNCHANGED <<schedVars, regVars, metVars>>

\* response.success = true after the loop
ExtractDone ==
  /\ run.pc = "extract"
  /\ run.i > Len(run.types)
  /\ run' = [run EXCEPT !.pc = "returned", !.response.success = TRUE]
  /\ UNCHANGED <<expVars, bootVars, lockVars, timeVars, window, exceptRun>>
  /\ UNCHANGED <<schedVars, regVars, metVars>>

\* the caller takes the response
RunReturn ==
  /\ run.pc = "returned"
  /\ run' = RunIdle
  /\ UNCHANGED <<expVars, bootVars, lockVars, timeVars, window, exceptRun>>
  /\ UNCHANGED <<schedVars, regVars, metVars>>

(***************************************************************************)
(* main(): the HTTP server thread and the main loop                        *)
(***************************************************************************)
\* HttpServer after construction (running_(false), no thread) and main()
\* about to call start_async(); g_shutdown_requested{false}
NewServer ==
  [main |-> "start", thread |-> "none", running |-> FALSE, signal |-> FALSE,
   loops |-> 0]

\* signal_handler: SIGINT or SIGTERM arrives
SignalHandler ==
  /\ ~srv.signal
  /\ srv.main \notin {"returned", "terminated"}
  /\ srv' = [srv EXCEPT !.signal = TRUE]
  /\ UNCHANGED <<expVars, bootVars, lockVars, timeVars, window, exceptSrv>>
  /\ UNCHANGED <<schedVars, regVars, metVars>>

\* start_async(): the thread is created and main goes on to its loop
StartAsync ==
  /\ srv.main = "start"
  /\ srv' = [srv EXCEPT !.main = "test", !.thread = "spawned"]
  /\ UNCHANGED <<expVars, bootVars, lockVars, timeVars, window, exceptSrv>>
  /\ UNCHANGED <<schedVars, regVars, metVars>>

\* the server thread, start(): if (running_) return false; running_ = true
ServerSetRunning ==
  /\ srv.thread = "spawned"
  /\ srv.main \notin {"returned", "terminated"}
  /\ srv' = IF srv.running THEN [srv EXCEPT !.thread = "returned"]
            ELSE [srv EXCEPT !.thread = "configured", !.running = TRUE]
  /\ UNCHANGED <<expVars, bootVars, lockVars, timeVars, window, exceptSrv>>
  /\ UNCHANGED <<schedVars, regVars, metVars>>

\* the server thread, start(): server_.listen binds and serves, or fails
\* and running_ = false
ServerListen(success) ==
  /\ srv.thread = "configured"
  /\ srv.main \notin {"returned", "terminated"}
  /\ srv' = IF success THEN [srv EXCEPT !.thread = "listening"]
            ELSE [srv EXCEPT !.thread = "failed", !.running = FALSE]
  /\ UNCHANGED <<expVars, bootVars, lockVars, timeVars, window, exceptSrv>>
  /\ UNCHANGED <<schedVars, regVars, metVars>>

\* main: while (!g_shutdown_requested && http_server.is_running())
MainLoopTest ==
  /\ srv.main = "test"
  /\ srv' = IF ~srv.signal /\ srv.running
              THEN [srv EXCEPT !.main = "sleep"]
              ELSE [srv EXCEPT !.main = "shutdown"]
  /\ UNCHANGED <<expVars, bootVars, lockVars, timeVars, window, exceptSrv>>
  /\ UNCHANGED <<schedVars, regVars, metVars>>

\* main: the loop body (sleep_for, set_loaded_models)
MainLoopBody ==
  /\ srv.main = "sleep"
  /\ srv.loops < MaxLoops
  /\ srv' = [srv EXCEPT !.main = "test", !.loops = @ + 1]
  /\ UNCHANGED <<expVars, bootVars, lockVars, timeVars, window, exceptSrv>>
  /\ UNCHANGED <<schedVars, regVars, metVars>>

\* main: batch_executor.stop(); model_registry.stop_watcher(); then
\* http_server.stop() up to server_.stop(), which makes a serving listen
\* return; with running_ false stop() returns at once, main returns and
\* ~HttpServer finds the same, so a thread that was not joined is destroyed
\* joinable (std::terminate)
HttpStop ==
  /\ srv.main = "shutdown"
  /\ srv' =
       IF ~srv.running
         THEN [srv EXCEPT !.main = "terminated"]
         ELSE [srv EXCEPT !.main = "join", !.running = FALSE,
                          !.thread = IF @ = "listening" THEN "returned" ELSE @]
  /\ UNCHANGED <<expVars, bootVars, lockVars, timeVars, window, exceptSrv>>
  /\ UNCHANGED <<schedVars, regVars, metVars>>

\* http_server.stop(): server_thread_.join() returns, main returns 0
HttpJoin ==
  /\ srv.main = "join"
  /\ srv.thread \in {"returned", "failed"}
  /\ srv' = [srv EXCEPT !.main = "returned", !.thread = "joined"]
  /\ UNCHANGED <<expVars, bootVars, lockVars, timeVars, window, exceptSrv>>
  /\ UNCHANGED <<schedVars, regVars, metVars>>

(***************************************************************************)
(* ThreadPool                                                              *)
(***************************************************************************)
PoolWorker == 1..PoolWorkers

\* a worker thread at the top of worker_loop
WorkerAtWait == [pc |-> "wait", task |-> 0]

\* ThreadPool after construction: stop_(false), no task, the workers started.
\* sub is the thread in submit/enqueue, sd the thread in the shutdown() call
\* that set stop_; accepted and rejected count the tasks passed in, ran[k]
\* counts the invocations of task k, done is the set of tasks that returned,
\* again counts the shutdown() calls made after stop_ was set
NewPool ==
  [stop |-> FALSE, tasks |-> <<>>,
   worker |-> [w \in PoolWorker |-> WorkerAtWait],
   sub |-> "idle", sd |-> "idle", accepted |-> 0, rejected |-> 0,
   ran |-> [k \in 1..MaxTasks |-> 0], done |-> {}, again |-> 0]

\* submit()/enqueue(): the block under queue_mutex_: throw when stopped,
\* otherwise push the task
PoolSubmit ==
  /\ pool.sub = "idle"
  /\ pool.accepted + pool.rejected < MaxTasks
  /\ pool' = IF pool.stop
               THEN [pool EXCEPT !.rejected = @ + 1]
               ELSE [pool EXCEPT !.accepted = @ + 1,
                                 !.tasks = Append(@, pool.accepted + 1),
                                 !.sub = "notify"]
  /\ UNCHANGED <<expVars, bootVars, lockVars, timeVars, window, exceptPool>>
  /\ UNCHANGED <<schedVars, regVars, metVars>>

\* the workers blocked in condition_.wait
Blocked == {w \in PoolWorker : pool.worker[w].pc = "blocked"}

\* submit()/enqueue(): condition_.notify_one() wakes one blocked worker, if
\* there is one
PoolNotifyOne ==
  /\ pool.sub = "notify"
  /\ \/ /\ Blocked = {}
        /\ pool' = [pool EXCEPT !.sub = "idle"]
     \/ \E w \in Blocked :
          pool' = [pool EXCEPT !.sub = "idle", !.worker[w].pc = "wait"]
  /\ UNCHANGED <<expVars, bootVars, lockVars, timeVars, window, exceptPool>>
  /\ UNCHANGED <<schedVars, regVars, metVars>>

\* worker_loop: if (stop_ && tasks_.empty()) return
WorkerExits_OnStop == pool.stop
WorkerExits == pool.stop /\ pool.tasks = <<>>

\* worker_loop: the block under queue_mutex_: the wait predicate fails and
\* the worker blocks, or the worker returns, or it pops the front task
PoolWorkerLocked(w) ==
  /\ pool.worker[w].pc = "wait"
  /\ pool' =
       IF ~(pool.stop \/ pool.tasks # <<>>)
         THEN [pool EXCEPT !.worker[w].pc = "blocked"]
       ELSE IF WorkerExits
         THEN [pool EXCEPT !.worker[w].pc = "exited"]
       ELSE [pool EXCEPT !.worker[w] = [pc |-> "run", task |-> Head(pool.tasks)],
                         !.tasks = Tail(@)]
  /\ UNCHANGED <<expVars, bootVars, lockVars, timeVars, window, exceptPool>>
  /\ UNCHANGED <<schedVars, regVars, metVars>>

\* worker_loop: task() runs and returns
PoolWorkerRun(w) ==
  /\ pool.worker[w].pc = "run"
  /\ pool' = [pool EXCEPT !.ran[pool.worker[w].task] = @ + 1,
                          !.done = @ \cup {pool.worker[w].task},
                          !.worker[w] = WorkerAtWait]
  /\ UNCHANGED <<expVars, bootVars, lockVars, timeVars, window, exceptPool>>
  /\ UNCHANGED <<schedVars, regVars, metVars>>

\* condition_.wait: a blocked worker wakes spuriously and tests the
\* predicate again
PoolSpuriousWake(w) ==
  /\ pool.worker[w].pc = "blocked"
  /\ pool' = [pool EXCEPT !.worker[w].pc = "wait"]
  /\ UNCHANGED <<expVars, bootVars, lockVars, timeVars, window, exceptPool>>
  /\ UNCHANGED <<schedVars, regVars, metVars>>

\* shutdown(): the block under queue_mutex_: return when stop_ is set,
\* otherwise set it
PoolShutdown ==
  /\ pool.again < MaxAgain
  /\ pool' = IF pool.stop
               THEN [pool EXCEPT !.again = @ + 1]
               ELSE [pool EXCEPT !.stop = TRUE, !.sd = "notify"]
  /\ UNCHANGED <<expVars, bootVars, lockVars, timeVars, window, exceptPool>>
  /\ UNCHANGED <<schedVars, regVars, metVars>>

\* shutdown(): condition_.notify_all()
PoolNotifyAll ==
  /\ pool.sd = "notify"
  /\ pool' = [pool EXCEPT !.sd = "join",
                 !.worker = [w \in PoolWorker |->
                    IF pool.worker[w].pc = "blocked"
                      THEN WorkerAtWait ELSE pool.worker[w]]]
  /\ UNCHANGED <<expVars, bootVars, lockVars, timeVars, window, exceptPool>>
  /\ UNCHANGED <<schedVars, regVars, metVars>>

\* shutdown(): every worker.join() has returned
PoolJoin ==
  /\ pool.sd = "join"
  /\ \A w \in PoolWorker : pool.worker[w].pc = "exited"
  /\ pool' = [pool EXCEPT !.sd = "returned"]
  /\ UNCHANGED <<expVars, bootVars, lockVars, timeVars, window, exceptPool>>
  /\ UNCHANGED <<schedVars, regVars, metVars>>

InitLate ==
  /\ window = NewWindow
  /\ gauge = NewGauge
  /\ run = RunIdle
  /\ srv = NewServer
  /\ pool = NewPool

\* set(value), before any inc/dec call
GaugeSet(v) ==
  /\ gauge.calls = 0
  /\ gauge' = [gauge EXCEPT !.value = v, !.init = v]
  /\ UNCHANGED <<expVars, bootVars, lockVars, timeVars, window, exceptGauge>>
  /\ UNCHANGED <<schedVars, regVars, metVars>>

\* inc(delta), or dec(d) as inc(-d): the call begins
GaugeCall(t, delta) ==
  /\ gauge.th[t].pc = "out"
  /\ gauge.calls < MaxGaugeCalls
  /\ gauge' = [gauge EXCEPT !.calls = @ + 1,
                            !.th[t] = [GaugeOut EXCEPT !.pc = "load",
                                                       !.delta = delta]]
  /\ UNCHANGED <<expVars, bootVars, lockVars, timeVars, window, exceptGauge>>
  /\ UNCHANGED <<schedVars, regVars, metVars>>

\* old_val = value_.load(); new_val = old_val + delta
GaugeLoad(t) ==
  /\ gauge.th[t].pc = "load"
  /\ gauge' = [gauge EXCEPT !.th[t].pc = "cas",
                            !.th[t].old_val = gauge.value,
                            !.th[t].new_val = gauge.value + gauge.th[t].delta]
  /\ UNCHANGED <<expVars, bootVars, lockVars, timeVars, window, exceptGauge>>
  /\ UNCHANGED <<schedVars, regVars, metVars>>

\* compare_exchange_weak can store only when value_ holds the expected value
CasMayStore_Always(expected) == TRUE
CasMayStore(expected) == gauge.value = expected

\* compare_exchange_weak stores new_val and the call returns
GaugeCasWin(t) ==
  /\ gauge.th[t].pc = "cas"
  /\ CasMayStore(gauge.th[t].old_val)
  /\ gauge' = [gauge EXCEPT !.value = gauge.th[t].new_val,
                            !.applied = @ + gauge.th[t].delta,
                            !.wins[t] = @ + 1,
                            !.th[t] = GaugeOut]
  /\ UNCHANGED <<expVars, bootVars, lockVars, timeVars, window, exceptGauge>>
  /\ UNCHANGED <<schedVars, regVars, metVars>>

\* compare_exchange_weak fails, because value_ differs from the expected
\* value or spuriously, and the loop starts over
GaugeCasFail(t, spurious) ==
  /\ gauge.th[t].pc = "cas"
  /\ spurious \/ gauge.value # gauge.th[t].old_val
  /\ gauge' = [gauge EXCEPT !.th[t].pc = "load",
                            !.th[t].lost =
                               IF gauge.value # gauge.th[t].old_val
                                 THEN @ + 1 ELSE @,
                            !.refused =
                               IF gauge.value # gauge.th[t].old_val
                                 THEN @ + 1 ELSE @]
  /\ UNCHANGED <<expVars, bootVars, lockVars, timeVars, window, exceptGauge>>
  /\ UNCHANGED <<schedVars, regVars, metVars>>

RECURSIVE SumSeq(_)
SumSeq(q) == IF q = <<>> THEN 0 ELSE Head(q) + SumSeq(Tail(q))

\* ss << avg_batch: a double written with the stream's default precision of
\* six significant digits; for a value below 10 these are five decimals.
\* The result is given in units of 1/Scale, rounded to the nearest.
Printed(sum, n) == (2 * sum * Scale + n) \div (2 * n)

\* export_prometheus: the average batch size block, under mutex_
ExportAverage ==
  /\ window' = [window EXCEPT !.avg =
       IF window.sizes = <<>> THEN AvgNone
       ELSE [n |-> Len(window.sizes), sum |-> SumSeq(window.sizes),
             printed |-> Printed(SumSeq(window.sizes), Len(window.sizes))]]
  /\ UNCHANGED <<expVars, bootVars, lockVars, timeVars, objVars>>
  /\ UNCHANGED <<schedVars, regVars, metVars>>

\* a writer (load_model called by reload or by the watcher, or the watcher's
\* erase) has reached std::unique_lock lock(mutex_) while the lock is held
\* shared: it waits inside lock() for the readers to drain
WriterWaiting ==
  /\ readers # {}
  /\ reloader.pc = "commit" \/ watcher.pc \in {"commit", "erase"}

\* what the operation returns, computed under the shared lock
ReadResult(op, name) ==
  CASE op = "has" -> <<Has(name)>>
    [] op = "count" -> <<Cardinality({n \in Models : Has(n)})>>
    [] op = "get" -> IF Has(name) THEN <<name>> ELSE <<>>
    [] op = "list" -> <<{n \in Models : Has(n)}>>

\* has(name), count(), get(name) or list() is called
ReadCall(op, name) ==
  /\ ~aborted
  /\ reader.pc = "idle"
  /\ reader' = [ReaderIdle EXCEPT !.pc = "lock", !.op = op, !.name = name]
  /\ UNCHANGED <<expVars, bootVars, lateVars, timeVars>>
  /\ UNCHANGED <<schedVars, regVars, metVars>>

\* std::shared_lock lock(mutex_).  No writer holds the lock between two steps
\* (writers hold it for one atomic step).  Whether lock_shared() returns while
\* a writer waits is left open by std::shared_mutex: an implementation that
\* lets readers pass admits the caller, one that queues readers behind a
\* waiting writer does not.
ReadLockShared(admit) ==
  /\ ~aborted
  /\ reader.pc = "lock"
  /\ admit \/ WriterWaiting
  /\ IF admit
       THEN /\ reader' = [reader EXCEPT !.pc = "locked"]
            /\ readers' = readers \cup {"reader"}
       ELSE /\ reader' = [reader EXCEPT !.pc = "blocked"]
            /\ UNCHANGED readers
  /\ UNCHANGED <<models, watcher, reloader, handler, aborted, files, lastVer,
                 reloadedVer>>
  /\ UNCHANGED <<expVars, bootVars, lateVars, timeVars>>
  /\ UNCHANGED <<schedVars, metVars>>

\* the writer in front of the caller has released the lock
ReadUnblock ==
  /\ ~aborted
  /\ reader.pc = "blocked"
  /\ ~WriterWaiting
  /\ reader' = [reader EXCEPT !.pc = "locked"]
  /\ readers' = readers \cup {"reader"}
  /\ UNCHANGED <<models, watcher, reloader, handler, aborted, files, lastVer,
                 reloadedVer>>
  /\ UNCHANGED <<expVars, bootVars, lateVars, timeVars>>
  /\ UNCHANGED <<schedVars, metVars>>

\* the lookup, the return and the release of the shared lock
ReadReturn ==
  /\ ~aborted
  /\ reader.pc = "locked"
  /\ reader' = [ReaderIdle EXCEPT !.op = reader.op, !.name = reader.name,
                                  !.result = ReadResult(reader.op, reader.name)]
  /\ readers' = readers \ {"reader"}
  /\ UNCHANGED <<models, watcher, reloader, handler, aborted, files, lastVer,
                 reloadedVer>>
  /\ UNCHANGED <<expVars, bootVars, lateVars, timeVars>>
  /\ UNCHANGED <<schedVars, metVars>>

(***************************************************************************)
(* Handlers::handle_infer                                                  *)
(***************************************************************************)
Bodies == {"ok", "bad_json", "no_inputs"}

\* status of the response built from infer_res: the try block always answers
\* 200; only an exception reaching the catch block gives 500
InferStatus(resp) == IF resp = "exception" THEN 500 ELSE 200

\* res.status of the early returns of handle_infer, in the order of the
\* code: json::parse(req.body), the 'inputs' check, then has(model_name);
\* 0 when none is taken
EarlyStatus_NoLookup(body, known) ==
  IF body # "ok" THEN 400 ELSE 0
EarlyStatus(body, known) ==
  IF body # "ok" THEN 400
  ELSE IF ~known THEN 404
  ELSE 0

\* error.message of the early returns
EarlyMessage(body, name) ==
  CASE body = "bad_json" -> "Invalid JSON body"
    [] body = "no_inputs" -> "Missing 'inputs' field"
    [] OTHER -> "Model not found: " \o name

\* body parsing, the 'inputs' check and the has(model_name) check
HandleInferBegin(name, body) ==
  /\ ~aborted
  /\ handler.pc = "idle"
  /\ handler' =
       IF EarlyStatus(body, Has(name)) # 0
         THEN [HandlerIdle EXCEPT !.status = EarlyStatus(body, Has(name)),
                                  !.message = EarlyMessage(body, name)]
         ELSE [HandlerIdle EXCEPT !.name = name, !.pc = "call"]
  /\ UNCHANGED <<models, readers, watcher, reloader, aborted, files, lastVer,
                 reloadedVer>>
  /\ UNCHANGED <<schedVars, metVars, auxVars>>

\* ModelRegistry::run_inference: shared lock and lookup.  With batching
\* enabled the call is made by the scheduler worker on behalf of the handler,
\* which waits on the future.
InferBegin ==
  /\ ~aborted
  /\ handler.pc = "call"
  /\ IF ~Has(handler.name)
       THEN /\ handler' = [handler EXCEPT !.pc = "respond",
                             !.resp = "not_found",
                             !.floor = reloadedVer[handler.name]]
            /\ UNCHANGED readers
       ELSE /\ handler' = [handler EXCEPT !.pc = "running",
                             !.session = models[handler.name].session,
                             !.ver = models[handler.name].ver,
                             !.floor = reloadedVer[handler.name]]
            /\ readers' = readers \cup {"handler"}
  /\ UNCHANGED <<models, watcher, reloader, aborted, files, lastVer,
                 reloadedVer>>
  /\ UNCHANGED <<schedVars, metVars, auxVars>>

\* ModelRegistry::run_inference: the backend call returns, the lock is released
InferEnd(out) ==
  /\ ~aborted
  /\ handler.pc = "running"
  /\ out \in SessionRunOutcomes
  /\ readers' = readers \ {"handler"}
  /\ handler' = [handler EXCEPT !.pc = "respond",
       !.resp = IF config.enabled THEN WorkerResponse(out) ELSE out]
  /\ UNCHANGED <<models, watcher, reloader, aborted, files, lastVer,
                 reloadedVer>>
  /\ UNCHANGED <<schedVars, metVars, auxVars>>

\* the response is built and res.status set
HandleInferRespond ==
  /\ ~aborted
  /\ handler.pc = "respond"
  /\ handler' = [HandlerIdle EXCEPT !.resp = handler.resp,
                                    !.status = InferStatus(handler.resp)]
  /\ UNCHANGED <<models, readers, watcher, reloader, aborted, files, lastVer,
                 reloadedVer>>
  /\ UNCHANGED <<schedVars, metVars, auxVars>>

(***************************************************************************)
(* Handlers::handle_reload_model                                           *)
(***************************************************************************)
\* res.status for what model_registry_.reload(name) did: "true" and "false"
\* are its return values, "exception" stands for a std::exception leaving it
\* (load_model catches every std::exception of a load and returns false)
ReloadStatus(result) ==
  CASE result = "true" -> 200
    [] result = "false" -> 404
    [] result = "exception" -> 500

(***************************************************************************)
(* MetricsCollector: record_request, Counter, Histogram                    *)
(* A latency (a double, in seconds) is modelled exactly as a whole number  *)
(* of nanoseconds plus a number of half nanoseconds (0 or 1).              *)
(***************************************************************************)
\* threads of the HTTP server's pool that call record_request
Threads == {"t1", "t2"}

\* upper bounds of a configured latency_buckets list, in nanoseconds (0.001 s
\* and 0.005 s), followed by the +Inf bucket the constructor appends
LatencyBuckets ==
  <<[inf |-> FALSE, ns |-> 1000000], [inf |-> FALSE, ns |-> 5000000],
    [inf |-> TRUE, ns |-> 0]>>

\* the latencies observed: exactly 1 ms, 1 ms and half a nanosecond, and
\* 5.000001 ms
Latencies ==
  {[ns |-> 1000000, half |-> 0], [ns |-> 1000000, half |-> 1],
   [ns |-> 5000001, half |-> 0]}

Methods == {"GET"}
Endpoints == {"/health"}
Statuses == {200, 404}

\* std::string key = method + "_" + endpoint + "_" + std::to_string(status)
RequestKey(endpoint, method, status) ==
  method \o "_" \o endpoint \o "_" \o ToString(status)

\* Counter::inc on the entry request_counts_[key] (created at 0 if absent)
IncKey(counts, key) ==
  IF key \in DOMAIN counts THEN [counts EXCEPT ![key] = @ + 1]
  ELSE counts @@ (key :> 1)

\* static_cast<uint64_t>(value * 1e9): the fraction of a nanosecond is dropped
ToNanos(value) == value.ns

\* value <= bucket.upper_bound
InBucket_Strict(value, upper_bound) ==
  upper_bound.inf \/ value.ns < upper_bound.ns
InBucket(value, upper_bound) ==
  \/ upper_bound.inf
  \/ value.ns < upper_bound.ns
  \/ value.ns = upper_bound.ns /\ value.half = 0

NewHistogram ==
  [sum |-> 0, count |-> 0, buckets |-> [i \in 1..Len(LatencyBuckets) |-> 0]]

CallerIdle == [pc |-> "idle", key |-> "", status |-> 0,
               value |-> [ns |-> 0, half |-> 0], i |-> 0, calls |-> 0]

RECURSIVE SumOver(_, _)
SumOver(f, S) ==
  IF S = {} THEN 0
  ELSE LET x == CHOOSE y \in S : TRUE IN f[x] + SumOver(f, S \ {x})

CallsBegun == SumOver([t \in Threads |-> caller[t].calls], Threads)

\* record_request: the key and request_counts_[key].inc() under mutex_
RecordRequestBegin(t, endpoint, method, status, latency) ==
  /\ caller[t].pc = "idle"
  /\ CallsBegun < MaxCalls
  /\ request_counts' = IncKey(request_counts,
                              RequestKey(endpoint, method, status))
  /\ caller' = [caller EXCEPT ![t] =
       [pc |-> "total", key |-> RequestKey(endpoint, method, status),
        status |-> status, value |-> latency, i |-> 0,
        calls |-> caller[t].calls + 1]]
  /\ observed' = [observed EXCEPT ![latency] = @ + 1]
  /\ UNCHANGED <<requests_total, request_errors, request_latency>>
  /\ UNCHANGED <<schedVars, regVars, auxVars>>

\* record_request: requests_total_.inc()
RecordRequestTotal_OnlySuccess(t) ==
  /\ caller[t].pc = "total"
  /\ requests_total' = IF caller[t].status >= 400 THEN requests_total
                       ELSE requests_total + 1
  /\ caller' = [caller EXCEPT ![t].pc = "sum"]
  /\ UNCHANGED <<request_counts, request_errors, request_latency, observed>>
  /\ UNCHANGED <<schedVars, regVars, auxVars>>

RecordRequestTotal(t) ==
  /\ caller[t].pc = "total"
  /\ requests_total' = requests_total + 1
  /\ caller' = [caller EXCEPT ![t].pc = "sum"]
  /\ UNCHANGED <<request_counts, request_errors, request_latency, observed>>
  /\ UNCHANGED <<schedVars, regVars, auxVars>>

\* Histogram::observe: sum_.fetch_add(static_cast<uint64_t>(value * 1e9))
ObserveSum(t) ==
  /\ caller[t].pc = "sum"
  /\ request_latency' = [request_latency EXCEPT
                           !.sum = @ + ToNanos(caller[t].value)]
  /\ caller' = [caller EXCEPT ![t].pc = "count"]
  /\ UNCHANGED <<request_counts, requests_total, request_errors, observed>>
  /\ UNCHANGED <<schedVars, regVars, auxVars>>

\* Histogram::observe: count_.fetch_add(1)
ObserveCount(t) ==
  /\ caller[t].pc = "count"
  /\ request_latency' = [request_latency EXCEPT !.count = @ + 1]
  /\ caller' = [caller EXCEPT ![t].pc = "bucket", ![t].i = 1]
  /\ UNCHANGED <<request_counts, requests_total, request_errors, observed>>
  /\ UNCHANGED <<schedVars, regVars, auxVars>>

\* Histogram::observe: one pass of the loop over buckets_
ObserveBucket(t) ==
  /\ caller[t].pc = "bucket"
  /\ request_latency' =
       IF InBucket(caller[t].value, LatencyBuckets[caller[t].i])
         THEN [request_latency EXCEPT !.buckets[caller[t].i] = @ + 1]
         ELSE request_latency
  /\ caller' = IF caller[t].i < Len(LatencyBuckets)
                 THEN [caller EXCEPT ![t].i = @ + 1]
                 ELSE [caller EXCEPT ![t].pc = "errors", ![t].i = 0]
  /\ UNCHANGED <<request_counts, requests_total, request_errors, observed>>
  /\ UNCHANGED <<schedVars, regVars, auxVars>>

\* record_request: if (status >= 400) request_errors_.inc(), and return
RecordRequestErrors(t) ==
  /\ caller[t].pc = "errors"
  /\ request_errors' = IF caller[t].status >= 400 THEN request_errors + 1
                       ELSE request_errors
  /\ caller' = [caller EXCEPT ![t] =
                  [CallerIdle EXCEPT !.calls = caller[t].calls]]
  /\ UNCHANGED <<request_counts, requests_total, request_latency, observed>>
  /\ UNCHANGED <<schedVars, regVars, auxVars>>

ExporterIdle ==
  [pc |-> "idle", i |-> 0, buckets |-> <<>>, sum |-> 0, count |-> 0]

\* export_prometheus reaches export_histogram(ss, ..., request_latency_); no
\* lock is held while the histogram is read (one scrape is followed)
ExportBegin ==
  /\ exporter.pc = "idle"
  /\ exporter' = [ExporterIdle EXCEPT !.pc = "bucket", !.i = 1]
  /\ UNCHANGED <<timeVars, bootVars, lockVars, lateVars>>
  /\ UNCHANGED <<schedVars, regVars, metVars>>

\* export_histogram: one pass of the loop, bucket.count->load() is written
\* to the output
ExportBucket ==
  /\ exporter.pc = "bucket"
  /\ exporter' =
       [exporter EXCEPT
          !.buckets = Append(@, request_latency.buckets[exporter.i]),
          !.i = IF exporter.i < Len(LatencyBuckets) THEN @ + 1 ELSE 0,
          !.pc = IF exporter.i < Len(LatencyBuckets) THEN "bucket" ELSE "sum"]
  /\ UNCHANGED <<timeVars, bootVars, lockVars, lateVars>>
  /\ UNCHANGED <<schedVars, regVars, metVars>>

\* export_histogram: the _sum line, hist.sum()
ExportSum ==
  /\ exporter.pc = "sum"
  /\ exporter' = [exporter EXCEPT !.sum = request_latency.sum,
                                  !.pc = "count"]
  /\ UNCHANGED <<timeVars, bootVars, lockVars, lateVars>>
  /\ UNCHANGED <<schedVars, regVars, metVars>>

\* export_histogram: the _count line, hist.count(); the output is complete
ExportCount ==
  /\ exporter.pc = "count"
  /\ exporter' = [exporter EXCEPT !.count = request_latency.count,
                                  !.pc = "done"]
  /\ UNCHANGED <<timeVars, bootVars, lockVars, lateVars>>
  /\ UNCHANGED <<schedVars, regVars, metVars>>

AllOrders == UNION {Perms(S) : S \in SUBSET Models}

WorkerStep ==
  \/ WorkerCheck
  \/ \E aged \in BOOLEAN, order \in AllOrders : WorkerIterate(aged, order)
  \/ \E out \in SessionRunOutcomes \cup {"not_found"} : ProcessOne(out)
  \/ FinishBatch
  \/ \E order \in AllOrders : WorkerDrain(order)

\* the timed branch of the flush decision: the front request has waited max_wait_ms
WorkerTimedFlush == \E order \in AllOrders : WorkerIterate(TRUE, order)

SubmitStep ==
  /\ Len(reqModel) < MaxReq
  /\ \E name \in Models, out \in SessionRunOutcomes \cup {"not_found"} :
       Submit(name, out)

\* initialize() has scanned the directory: every file present is loaded (one
\* artifact at startup, hence one session)
LoadedFrom(fs) == [name \in Models |->
  IF fs[name] = NoFile THEN NoEntry
  ELSE [session |-> 1, ver |-> fs[name].ver, mtime |-> fs[name].ver]]

FileAtInit == [ver |-> 1, good |-> TRUE]

InitScheduler ==
  /\ running = FALSE
  /\ executor_thread = "none"
  /\ wpc = "off"
  /\ pending_requests = <<>>
  /\ batch = <<>>
  /\ todo = <<>>
  /\ draining = FALSE
  /\ reqModel = <<>>
  /\ promise = <<>>
  /\ batches_total = 0
  /\ mainPc = "init"
  /\ enqueued = <<>>
  /\ dispatched = <<>>
  /\ runOrder = <<>>

InitRegistry ==
  /\ models = LoadedFrom(files)
  /\ readers = {}
  /\ watcher = WatcherIdle
  /\ reloader = ReloaderIdle
  /\ handler = HandlerIdle
  /\ aborted = FALSE
  /\ lastVer = 1
  /\ reloadedVer = [name \in Models |-> 0]


InitExport == exporter = ExporterIdle

\* ModelRegistry::initialize() has returned, with the models directory
\* present and hot reload configured
InitBooted ==
  boot = [pc |-> "initialized", dir_exists |-> TRUE, hot_reload |-> TRUE,
          running |-> TRUE, stop |-> "idle", stops |-> 0]

(***************************************************************************)
(* Config: the schema, to_json and parse_json                              *)
(***************************************************************************)
\* the member initializers of ServerConfig ... LoggingConfig
DefaultConfig ==
  [server |-> [host |-> "0.0.0.0", port |-> 8080, threads |-> 4],
   inference |-> [providers |-> <<"cuda", "cpu">>, gpu_device_id |-> 0,
                  memory_limit_mb |-> 4096, intra_op_threads |-> 0,
                  inter_op_threads |-> 0, graph_optimization |-> "all"],
   batching |-> [enabled |-> TRUE, max_batch_size |-> 32,
                 min_batch_size |-> 1, max_wait_ms |-> 10,
                 adaptive_sizing |-> TRUE],
   models |-> [directory |-> "./models", hot_reload |-> TRUE,
               watch_interval_ms |-> 5000, preload |-> <<>>],
   metrics |-> [enabled |-> TRUE, path |-> "/metrics",
                latency_buckets |-> <<"0.001", "0.005", "0.01", "0.025",
                                      "0.05", "0.1", "0.25", "0.5", "1.0">>],
   logging |-> [level |-> "info", format |-> "json", timestamp |-> TRUE]]

\* for every field of the schema, a value other than its default
OtherConfig ==
  [server |-> [host |-> "127.0.0.1", port |-> 9090, threads |-> 8],
   inference |-> [providers |-> <<"cpu">>, gpu_device_id |-> 1,
                  memory_limit_mb |-> 1024, intra_op_threads |-> 2,
                  inter_op_threads |-> 2, graph_optimization |-> "basic"],
   batching |-> [enabled |-> FALSE, max_batch_size |-> 8,
                 min_batch_size |-> 4, max_wait_ms |-> 50,
                 adaptive_sizing |-> FALSE],
   models |-> [directory |-> "/srv/models", hot_reload |-> FALSE,
               watch_interval_ms |-> 1000, preload |-> <<"a">>],
   metrics |-> [enabled |-> FALSE, path |-> "/stats",
                latency_buckets |-> <<"0.5", "1.0">>],
   logging |-> [level |-> "debug", format |-> "text", timestamp |-> FALSE]]

Sections == DOMAIN DefaultConfig

\* Config::to_json
ToJson(c) ==
  [server |-> [host |-> c.server.host, port |-> c.server.port,
               threads |-> c.server.threads],
   inference |-> [providers |-> c.inference.providers,
                  gpu_device_id |-> c.inference.gpu_device_id,
                  memory_limit_mb |-> c.inference.memory_limit_mb],
   batching |-> [enabled |-> c.batching.enabled,
                 max_batch_size |-> c.batching.max_batch_size,
                 max_wait_ms |-> c.batching.max_wait_ms],
   models |-> [directory |-> c.models.directory,
               hot_reload |-> c.models.hot_reload],
   metrics |-> [enabled |-> c.metrics.enabled, path |-> c.metrics.path]]

\* Config::parse_json: a default-constructed Config in which every key the
\* document contains replaces the member
ParseJson(j) ==
  [sec \in Sections |->
     [key \in DOMAIN DefaultConfig[sec] |->
        IF sec \in DOMAIN j /\ key \in DOMAIN j[sec]
          THEN j[sec][key]
          ELSE DefaultConfig[sec][key]]]

\* members of c that were given a value other than the default
Overridden(c) ==
  {<<sec, key>> \in UNION {{sec} \X DOMAIN DefaultConfig[sec] : sec \in Sections} :
     c[sec][key] # DefaultConfig[sec][key]}

\* no Config object is followed
ConfNone == [pc |-> "none"]

InitConf == conf = ConfNone

\* a default-constructed Config
ConfBuilt == [pc |-> "built", c |-> DefaultConfig, json |-> <<>>,
              parsed |-> DefaultConfig]

\* a member of the Config object is assigned (by the program that builds c)
SetMember(sec, key) ==
  /\ conf.pc = "built"
  /\ Cardinality(Overridden(conf.c)) < MaxOverrides
  /\ conf.c[sec][key] = DefaultConfig[sec][key]
  /\ conf' = [conf EXCEPT !.c[sec][key] = OtherConfig[sec][key]]
  /\ UNCHANGED <<boot, expVars, lockVars, lateVars, timeVars>>
  /\ UNCHANGED <<schedVars, regVars, metVars>>

\* j = c.to_json()
Serialize ==
  /\ conf.pc = "built"
  /\ conf' = [conf EXCEPT !.json = ToJson(conf.c), !.pc = "serialized"]
  /\ UNCHANGED <<boot, expVars, lockVars, lateVars, timeVars>>
  /\ UNCHANGED <<schedVars, regVars, metVars>>

\* parse_json(j)
Parse ==
  /\ conf.pc = "serialized"
  /\ conf' = [conf EXCEPT !.parsed = ParseJson(conf.json), !.pc = "parsed"]
  /\ UNCHANGED <<boot, expVars, lockVars, lateVars, timeVars>>
  /\ UNCHANGED <<schedVars, regVars, metVars>>

NextConf ==
  \/ \E sec \in Sections : \E key \in DOMAIN DefaultConfig[sec] :
        SetMember(sec, key)
  \/ Serialize
  \/ Parse

InitTime ==
  /\ now = 0
  /\ enqueue_time = <<>>
  /\ dispatch_time = <<>>

InitMetrics ==
  /\ request_counts = <<>>
  /\ requests_total = 0
  /\ request_errors = 0
  /\ request_latency = NewHistogram
  /\ caller = [t \in Threads |-> CallerIdle]
  /\ observed = [v \in Latencies |-> 0]

\* Scheduler: "a" is loaded, "b" has no artifact; the directory does not change
Init ==
  /\ config \in [enabled : BOOLEAN,
                 max_batch_size : 1..MaxBatchCfg,
                 min_batch_size : 1..MaxBatchCfg]
  /\ files = [name \in Models |-> IF name = "a" THEN FileAtInit ELSE NoFile]
  /\ InitScheduler
  /\ InitRegistry
  /\ InitMetrics
  /\ InitTime
  /\ InitExport
  /\ InitConf
  /\ InitBooted
  /\ InitReader
  /\ InitLate

Next ==
  \/ Start
  \/ Stop
  \/ StopJoin
  \/ SubmitStep
  \/ WorkerStep

Spec == Init /\ [][Next]_vars

\* The main thread calls start() right after construction (main.cpp); the worker
\* thread is scheduled; the front request's age grows beyond max_wait_ms.
FairSpec ==
  /\ Init /\ [][Next]_vars
  /\ WF_vars(Start)
  /\ WF_vars(StopJoin)
  /\ WF_vars(WorkerStep)
  /\ SF_vars(WorkerTimedFlush)


(***************************************************************************)
(* Scheduler claims                                                        *)
(***************************************************************************)
HasFuture(id) == id <= Len(promise) /\ promise[id].future
Fulfilled(id) == id <= Len(promise) /\ promise[id].sets >= 1

EnqPos(id) == CHOOSE k \in 1..Len(enqueued) : enqueued[k] = id

\* C1: every future returned by submit() is eventually fulfilled, for any
\* interleaving of submit() with start() and stop(), submits after stop()
\* included.
C1_EveryFutureFulfilled ==
  \A id \in 1..MaxReq : HasFuture(id) ~> Fulfilled(id)

\* C2: no promise is set more than once, and no request is detached from the
\* queue by more than one batch (regular or drain).
C2_FulfilledAtMostOnce ==
  /\ \A id \in 1..Len(promise) : promise[id].sets <= 1
  /\ LET f == Flatten(dispatched)
     IN \A i, j \in 1..Len(f) : f[i] = f[j] => i = j

\* a regular batch and then the drain batch were both served completely
C2_Witness ==
  /\ Len(dispatched) >= 2
  /\ draining
  /\ \A id \in Range(Flatten(dispatched)) : promise[id].sets = 1

\* C3: every batch handed to process_batch, the drain batch included, holds
\* at most max_batch_size requests.
C3_BatchWithinMax ==
  \A i \in 1..Len(dispatched) : Len(dispatched[i]) <= config.max_batch_size

\* C4: two requests for the same model are executed by the worker in the
\* order in which submit() enqueued them.
C4_PerModelOrder ==
  \A i, j \in 1..Len(runOrder) :
    (i < j /\ reqModel[runOrder[i]] = reqModel[runOrder[j]])
      => EnqPos(runOrder[i]) < EnqPos(runOrder[j])

\* two requests of one model with a request of another model between them,
\* all executed, the last one by the shutdown drain
C4_Witness ==
  /\ Len(runOrder) >= 3
  /\ draining
  /\ \E i, j, k \in 1..Len(enqueued) :
       /\ i < j /\ j < k
       /\ reqModel[enqueued[i]] = reqModel[enqueued[k]]
       /\ reqModel[enqueued[i]] # reqModel[enqueued[j]]
       /\ {enqueued[i], enqueued[j], enqueued[k]} \subseteq Range(runOrder)

\* C5: the batches detached so far, concatenated, followed by what is still
\* queued, are exactly the requests in the order they were enqueued.
C5_FifoDetach ==
  Flatten(dispatched) \o pending_requests = enqueued

\* two batches were detached, the second one while a third request was queued
C5_Witness ==
  /\ Len(dispatched) >= 2
  /\ pending_requests # <<>>
  /\ ~draining

\* C12: with batching disabled every future submit() returns is already
\* fulfilled, by a response whose queue_time_ms is 0; the queue is never
\* modified (queue_size() stays 0), nothing is handed to process_batch and
\* no worker thread exists.
C12_DisabledIsSynchronous ==
  ~config.enabled =>
    /\ \A id \in 1..Len(promise) :
         promise[id].future =>
           promise[id].sets = 1 /\ promise[id].queue_time_ms = 0
    /\ pending_requests = <<>> /\ enqueued = <<>>
    /\ dispatched = <<>> /\ runOrder = <<>> /\ batches_total = 0
    /\ executor_thread = "none" /\ wpc = "off" /\ ~running

\* start() was called, then two submits returned, one with a successful and
\* one with a failed response
C12_Witness ==
  /\ ~config.enabled
  /\ mainPc = "serving"
  /\ \E i, j \in 1..Len(promise) :
       /\ promise[i].future /\ promise[i].value = "ok"
       /\ promise[j].future /\ promise[j].value \in {"backend_error", "not_found"}

\* C18: a request whose run_inference failed or threw has its future
\* fulfilled with an error response (success = false); the worker is alive as
\* long as running_ is set, whatever the outcomes were; the requests still to
\* run in the batch, and the requests queued while running_ is set, are
\* eventually fulfilled.
C18_FailureKeepsWorker ==
  /\ [](\A i \in 1..Len(runOrder) :
          /\ promise[runOrder[i]].sets = 1
          /\ promise[runOrder[i]].value \in
               {"ok", "not_found", "backend_error", "caught_exception"})
  /\ [](running => wpc # "off" /\ executor_thread = "alive")
  /\ \A id \in 1..MaxReq :
       (id \in Range(todo) \/ (running /\ id \in Range(pending_requests)))
         ~> Fulfilled(id)

\* the first request of a batch of two threw, the second one and the one of
\* the next batch were served, and the worker is still in its loop
C18_Witness ==
  /\ Len(dispatched) = 2
  /\ Len(dispatched[1]) = 2
  /\ promise[dispatched[1][1]].value = "caught_exception"
  /\ promise[dispatched[1][2]].value = "ok"
  /\ promise[dispatched[2][1]].value = "backend_error"
  /\ running /\ wpc = "check"

\* C6: once stop() has returned the worker is gone and the queue is empty,
\* and stays so.
C6_StoppedMeansEmpty ==
  mainPc = "stopped" =>
    /\ executor_thread # "alive"
    /\ wpc = "off"
    /\ pending_requests = <<>>


(***************************************************************************)
(* Timed specification: the scheduler with a clock.  Requests arrive once  *)
(* start() was called.  A backend call takes any time; the worker, when it *)
(* is not inside process_batch, runs its next iteration at most            *)
(* WakeLatency ticks after the front request has waited max_wait_ms.       *)
(***************************************************************************)
\* age of the front request
FrontAge == now - enqueue_time[Head(pending_requests)]

\* should_flush_batch: age_ms >= max_wait_ms
FrontAged_Strict == pending_requests # <<>> /\ FrontAge > MaxWaitTicks
FrontAged == pending_requests # <<>> /\ FrontAge >= MaxWaitTicks

\* the worker is outside process_batch and overdue
WorkerOverdue ==
  /\ wpc \in {"check", "wait", "drain"}
  /\ pending_requests # <<>>
  /\ FrontAge >= MaxWaitTicks + WakeLatency

Tick ==
  /\ now < MaxTime
  /\ ~WorkerOverdue
  /\ now' = now + 1
  /\ UNCHANGED <<enqueue_time, dispatch_time>>
  /\ UNCHANGED <<schedVars, regVars, metVars, untimedAux>>

\* max_batch_size and min_batch_size are size_t members that no code
\* validates: 0 is a value a configuration file can give them
InitTimed ==
  /\ config \in [enabled : {TRUE},
                 max_batch_size : 0..MaxBatchCfg,
                 min_batch_size : 0..MaxBatchCfg]
  /\ files = [name \in Models |-> IF name = "a" THEN FileAtInit ELSE NoFile]
  /\ InitScheduler
  /\ InitRegistry
  /\ InitMetrics
  /\ InitTime
  /\ InitExport
  /\ InitConf
  /\ InitBooted
  /\ InitReader
  /\ InitLate

\* requests for the loaded model, which the backend serves
SubmitTimed ==
  /\ mainPc # "init"
  /\ Len(reqModel) < MaxTimedReq
  /\ Submit("a", "ok")

WorkerTimed ==
  \/ WorkerCheck
  \/ \E order \in AllOrders : WorkerIterate(FrontAged, order)
  \/ ProcessOne("ok")
  \/ FinishBatch
  \/ \E order \in AllOrders : WorkerDrain(order)

NextTimed ==
  \/ Start
  \/ Stop
  \/ StopJoin
  \/ SubmitTimed
  \/ WorkerTimed
  \/ Tick

SpecTimed == InitTimed /\ [][NextTimed]_vars

\* a step of the worker through the block under queue_mutex_ while running_
WorkerIteration == wpc = "wait" /\ wpc' # "wait" /\ running

\* the flush condition as the claim words it
FlushDue ==
  \/ Len(pending_requests) >= config.min_batch_size
  \/ /\ pending_requests # <<>>
     /\ now - enqueue_time[Head(pending_requests)] >= MaxWaitTicks

\* C26 as stated: while running, a worker iteration detaches a batch exactly
\* when the queue size is >= min_batch_size or the queue is non-empty and its
\* front request is at least max_wait_ms old; otherwise the queue is unchanged.
C26_DetachIffDue ==
  [][WorkerIteration =>
       /\ FlushDue <=> dispatched' # dispatched
       /\ ~FlushDue => pending_requests' = pending_requests]_vars

\* C26 amended: the same for a non-empty queue and max_batch_size >= 1, the
\* batch being the first min(size, max_batch_size) requests; an empty queue
\* or max_batch_size = 0 detaches nothing.  A single queued request below
\* min_batch_size leaves only at age >= max_wait_ms, as a batch of one.
C26_DetachIffDueAndNonEmpty ==
  [][WorkerIteration =>
       /\ IF FlushDue /\ pending_requests # <<>> /\ config.max_batch_size >= 1
            THEN /\ dispatched' =
                      Append(dispatched,
                             SubSeq(pending_requests, 1,
                                    Min(Len(pending_requests),
                                        config.max_batch_size)))
                 /\ pending_requests' =
                      SubSeq(pending_requests,
                             Min(Len(pending_requests),
                                 config.max_batch_size) + 1,
                             Len(pending_requests))
            ELSE /\ dispatched' = dispatched
                 /\ pending_requests' = pending_requests
       /\ (Len(pending_requests) = 1 /\ config.min_batch_size > 1
             /\ dispatched' # dispatched)
            => /\ now - enqueue_time[Head(pending_requests)] >= MaxWaitTicks
               /\ batch' = pending_requests]_vars

\* a single request below min_batch_size was detached by the running worker,
\* alone, exactly when it had waited max_wait_ms
C26_Witness ==
  /\ running
  /\ config.min_batch_size = 2
  /\ Len(dispatched) = 1
  /\ Len(dispatched[1]) = 1
  /\ dispatch_time[1] - enqueue_time[dispatched[1][1]] = MaxWaitTicks

\* the instant from which a served request's queue_time_ms was measured
MeasuredAt(id) == enqueue_time[id] + promise[id].queue_time_ms

\* C28: queue_time_ms of a request is the dispatch start of its batch minus
\* its enqueue time: one instant per batch, not earlier than the detachment,
\* the same for all requests of the batch (no inference time of earlier
\* requests of the batch is included).
C28_QueueTimeFromDispatchStart ==
  \A k \in 1..Len(dispatched) :
    \A i \in Range(dispatched[k]), j \in Range(dispatched[k]) :
      (promise[i].sets > 0 /\ promise[j].sets > 0)
        => /\ MeasuredAt(i) = MeasuredAt(j)
           /\ MeasuredAt(i) >= dispatch_time[k]

\* C21: at the moment a batch is detached, its oldest request (the first
\* one) has waited at most max_wait_ms + epsilon, also when the worker was
\* busy with an earlier batch.
C21_OldestAgeBounded ==
  \A k \in 1..Len(dispatched) :
    dispatch_time[k] - enqueue_time[dispatched[k][1]]
      <= MaxWaitTicks + WakeLatency

(***************************************************************************)
(* Burst specification: batching enabled with min_batch_size = 4 and       *)
(* max_batch_size = 8; after start(), eight requests for the loaded model  *)
(* are submitted within a window shorter than max_wait_ms, so no request   *)
(* has waited max_wait_ms before the last submit() was made.               *)
(***************************************************************************)
BurstConfig == [enabled |-> TRUE, max_batch_size |-> 8, min_batch_size |-> 4]

\* the eight requests of the burst: as many as max_batch_size
BurstSize == BurstConfig.max_batch_size

InitBurst ==
  /\ config = BurstConfig
  /\ files = [name \in Models |-> IF name = "a" THEN FileAtInit ELSE NoFile]
  /\ InitScheduler
  /\ InitRegistry
  /\ InitMetrics
  /\ InitTime
  /\ InitExport
  /\ InitConf
  /\ InitBooted
  /\ InitReader
  /\ InitLate

\* the submit window is open: submits are still to come
WindowOpen == Len(reqModel) < BurstSize

SubmitBurst ==
  /\ mainPc = "serving"
  /\ WindowOpen
  /\ Submit("a", "ok")

WorkerBurst ==
  \/ WorkerCheck
  \/ \E aged \in BOOLEAN, order \in AllOrders :
       /\ aged => ~WindowOpen
       /\ WorkerIterate(aged, order)
  \/ \E out \in SessionRunOutcomes : ProcessOne(out)
  \/ FinishBatch

NextBurst ==
  \/ Start
  \/ SubmitBurst
  \/ WorkerBurst

SpecBurst == InitBurst /\ [][NextBurst]_vars

BurstServed ==
  /\ Len(promise) = BurstSize
  /\ \A id \in 1..BurstSize : promise[id].sets = 1
  /\ wpc # "proc"

\* C20 as stated: the eight requests are dispatched as exactly one batch of
\* size 8 and batches_total ends at 1, for every interleaving of the submits
\* with the worker's wake-ups.
C20_ExactlyOneBatch ==
  /\ \A i \in 1..Len(dispatched) : Len(dispatched[i]) = BurstSize
  /\ batches_total <= 1
  /\ BurstServed => batches_total = 1

\* C20 amended: the eight requests are dispatched in submission order as one
\* batch of 8 or as two batches, the first of at least min_batch_size and
\* none above max_batch_size; batches_total ends at the number of batches.
C20_OneOrTwoBatches ==
  /\ Len(dispatched) <= 2
  /\ \A i \in 1..Len(dispatched) :
       Len(dispatched[i]) <= config.max_batch_size
  /\ dispatched # <<>> => Len(dispatched[1]) >= config.min_batch_size
  /\ Flatten(dispatched) \o pending_requests = enqueued
  /\ batches_total <= Len(dispatched)
  /\ BurstServed =>
       /\ batches_total = Len(dispatched)
       /\ Flatten(dispatched) = enqueued

\* the worker took five requests while the other three were still to come,
\* and flushed those three once the front one had waited max_wait_ms
C20_Witness ==
  /\ BurstServed
  /\ Len(dispatched) = 2
  /\ Len(dispatched[1]) = 5
  /\ Len(dispatched[2]) = 3
  /\ batches_total = 2

(***************************************************************************)
(* Registry specification: the watcher, one reload() caller, one           *)
(* handle_infer caller and the models directory changing under them.        *)
(***************************************************************************)
InitReg ==
  /\ config \in [enabled : BOOLEAN, max_batch_size : {1}, min_batch_size : {1}]
  /\ files = [name \in Models |-> IF name = "a" THEN FileAtInit ELSE NoFile]
  /\ InitScheduler
  /\ InitRegistry
  /\ InitMetrics
  /\ InitTime
  /\ InitExport
  /\ InitConf
  /\ InitBooted
  /\ InitReader
  /\ InitLate

\* the artifacts that come and go in this specification
Artifacts == {"a"}

EnvStep ==
  \/ \E name \in Artifacts, good \in BOOLEAN : FileWrite(name, good)
  \/ \E name \in Artifacts : FileDelete(name)

WatcherStep ==
  \/ WatcherTick
  \/ \E name \in Models, cached \in BOOLEAN : WatcherStat(name, cached)
  \/ WatcherCompare
  \/ WatcherCreate
  \/ WatcherCommit
  \/ WatcherScanRemoved
  \/ WatcherErase

ReloadStep ==
  \/ \E name \in Models : ReloadBegin(name)
  \/ ReloadCreate
  \/ ReloadCommit

HandlerStep ==
  \/ \E name \in Models, body \in Bodies : HandleInferBegin(name, body)
  \/ InferBegin
  \/ \E out \in SessionRunOutcomes : InferEnd(out)
  \/ HandleInferRespond

\* after std::terminate (aborted) no thread takes a step
NextReg ==
  \/ EnvStep
  \/ WatcherStep
  \/ ReloadStep
  \/ HandlerStep

SpecReg == InitReg /\ [][NextReg]_vars

\* the model names of a batch in the order of their first request
RECURSIVE FirstSeen(_)
FirstSeen(b) ==
  IF b = <<>> THEN <<>>
  ELSE LET rest == FirstSeen(SubSeq(b, 1, Len(b) - 1))
           name == reqModel[b[Len(b)]]
       IN IF name \in Range(rest) THEN rest ELSE Append(rest, name)

\* C27: within one dispatched batch the per-model groups are processed in
\* the order in which each model name first appears in the batch.
C27_GroupsInFirstSeenOrder ==
  (wpc = "proc" /\ Len(todo) = Len(batch))
    => todo = ConcatGroups(batch, FirstSeen(batch))

(***************************************************************************)
(* Stop specification: stop() step by step (flag write, notify_all, join)  *)
(* against the worker's wait_for step by step (predicate check under the   *)
(* queue mutex, block, wake-up by notification or by timeout).             *)
(***************************************************************************)
\* executor_loop: while (running_), then the lock is taken for wait_for
WorkerLoopTest ==
  /\ wpc = "check"
  /\ wpc' = IF running THEN "pred" ELSE "drain"
  /\ UNCHANGED <<config, running, executor_thread, pending_requests, batch,
                 todo, draining, reqModel, promise, batches_total, mainPc,
                 enqueued, dispatched, runOrder>>
  /\ UNCHANGED <<regVars, metVars, auxVars>>

\* wait_for evaluates its predicate under queue_mutex_: true, it returns at
\* once; false, the thread goes on to block
WaitPredicate ==
  /\ wpc = "pred"
  /\ wpc' = IF pending_requests # <<>> \/ ~running THEN "wait" ELSE "blocking"
  /\ UNCHANGED <<config, running, executor_thread, pending_requests, batch,
                 todo, draining, reqModel, promise, batches_total, mainPc,
                 enqueued, dispatched, runOrder>>
  /\ UNCHANGED <<regVars, metVars, auxVars>>

\* the thread blocks on queue_cv_ and releases the mutex.  stop() writes
\* running_ and notifies without the mutex, so both can happen between the
\* predicate check and this step.
WaitBlock ==
  /\ wpc = "blocking"
  /\ wpc' = "blocked"
  /\ UNCHANGED <<config, running, executor_thread, pending_requests, batch,
                 todo, draining, reqModel, promise, batches_total, mainPc,
                 enqueued, dispatched, runOrder>>
  /\ UNCHANGED <<regVars, metVars, auxVars>>

\* wait_for returns because max_wait_ms has elapsed (or because submit()'s
\* notify_one woke the thread)
WaitTimeout_Never ==
  /\ FALSE
  /\ UNCHANGED vars
WaitTimeout ==
  /\ wpc = "blocked"
  /\ wpc' = "wait"
  /\ UNCHANGED <<config, running, executor_thread, pending_requests, batch,
                 todo, draining, reqModel, promise, batches_total, mainPc,
                 enqueued, dispatched, runOrder>>
  /\ UNCHANGED <<regVars, metVars, auxVars>>

\* stop(): if (!running_) return; running_ = false (queue_mutex_ is not held)
StopFlag ==
  /\ mainPc = "serving"
  /\ IF ~running
       THEN mainPc' = "stopped" /\ UNCHANGED running
       ELSE running' = FALSE /\ mainPc' = "notify"
  /\ UNCHANGED <<config, executor_thread, wpc, pending_requests, batch, todo,
                 draining, reqModel, promise, batches_total, enqueued,
                 dispatched, runOrder>>
  /\ UNCHANGED <<regVars, metVars, auxVars>>

\* stop(): queue_cv_.notify_all() wakes the worker if it is blocked; a worker
\* that has checked the predicate but is not blocked yet misses it
StopNotify ==
  /\ mainPc = "notify"
  /\ mainPc' = "joining"
  /\ wpc' = IF wpc = "blocked" THEN "wait" ELSE wpc
  /\ UNCHANGED <<config, running, executor_thread, pending_requests, batch,
                 todo, draining, reqModel, promise, batches_total, enqueued,
                 dispatched, runOrder>>
  /\ UNCHANGED <<regVars, metVars, auxVars>>

WorkerStopStep ==
  \/ WorkerLoopTest
  \/ WaitPredicate
  \/ WaitBlock
  \/ \E aged \in BOOLEAN, order \in AllOrders : WorkerIterate(aged, order)
  \/ \E out \in SessionRunOutcomes \cup {"not_found"} : ProcessOne(out)
  \/ FinishBatch
  \/ \E order \in AllOrders : WorkerDrain(order)

SubmitDuringStop ==
  /\ Len(reqModel) < MaxTimedReq
  /\ \E name \in Models : Submit(name, "ok")

InitStop == Init

NextStop ==
  \/ Start
  \/ StopFlag
  \/ StopNotify
  \/ StopJoin
  \/ SubmitDuringStop
  \/ WorkerStopStep
  \/ WaitTimeout

\* the main thread and the worker thread are scheduled, and the timeout of
\* wait_for (max_wait_ms) elapses
FairSpecStop ==
  /\ InitStop /\ [][NextStop]_vars
  /\ WF_vars(StopNotify)
  /\ WF_vars(StopJoin)
  /\ WF_vars(WorkerStopStep)
  /\ WF_vars(WaitTimeout)

\* C31: once stop() has cleared running_ on a running scheduler, the worker
\* leaves its loop, drains the queue and is joined, and stop() returns, in
\* every interleaving of the flag write and the notification with the
\* worker's predicate check and wait.
C31_StopTerminates ==
  /\ (mainPc = "notify") ~> (mainPc = "stopped" /\ wpc = "off"
                               /\ executor_thread = "none")
  /\ [][(wpc = "drain" /\ wpc' # "drain") => pending_requests' = <<>>]_vars
  /\ [][(wpc # "off" /\ wpc' = "off")
         => /\ ~running
            /\ \/ wpc = "drain" /\ pending_requests = <<>>
               \/ wpc = "proc" /\ draining]_vars

\* stop() has returned after the worker drained a request that was still
\* queued when it left its loop
C31_Witness ==
  /\ mainPc = "stopped"
  /\ wpc = "off"
  /\ executor_thread = "none"
  /\ draining
  /\ Len(dispatched) >= 1

(***************************************************************************)
(* Restart specification: the scheduler with start() called more than once *)
(***************************************************************************)
InitRestart == Init

\* after std::terminate no thread takes a step
Alive == ~aborted /\ Next

NextRestart ==
  \/ Alive
  \/ StartAgain

SpecRestart == InitRestart /\ [][NextRestart]_vars

\* C29: whatever the sequence of start() and stop() calls (start() twice
\* without a stop(), start() after stop()), there is at most one worker
\* thread, none is spawned while one is alive, and the executor stays in a
\* valid state (the process is not terminated).
C29_AtMostOneWorker ==
  /\ ~aborted
  /\ (executor_thread = "alive") <=> (wpc # "off")

(***************************************************************************)
(* Boot specification: ModelRegistry::initialize() and what follows it     *)
(***************************************************************************)
\* the registry is constructed, initialize() has not been called: no entry,
\* no watcher thread; the models directory exists or not, and holds a.onnx
\* or not
InitBoot ==
  /\ config \in [enabled : {TRUE}, max_batch_size : {1}, min_batch_size : {1}]
  /\ boot \in [pc : {"constructed"}, dir_exists : BOOLEAN,
                hot_reload : BOOLEAN, running : {FALSE}, stop : {"idle"},
                stops : {0}]
  /\ files \in {[name \in Models |-> NoFile],
                 [name \in Models |->
                    IF name = "a" /\ boot.dir_exists THEN FileAtInit
                    ELSE NoFile]}
  /\ InitScheduler
  /\ models = [name \in Models |-> NoEntry]
  /\ readers = {}
  /\ watcher = [WatcherIdle EXCEPT !.pc = "off"]
  /\ reloader = ReloaderIdle
  /\ handler = HandlerIdle
  /\ aborted = FALSE
  /\ lastVer = 1
  /\ reloadedVer = [name \in Models |-> 0]
  /\ InitMetrics
  /\ InitTime
  /\ InitExport
  /\ InitConf
  /\ InitReader
  /\ InitLate

\* ModelRegistry::initialize(): a missing directory is created and the call
\* returns; otherwise the directory is scanned and, with hot_reload, the
\* watcher thread is started
Initialize ==
  /\ boot.pc = "constructed"
  /\ boot' = [boot EXCEPT !.pc = "initialized", !.dir_exists = TRUE,
                          !.running = boot.dir_exists /\ boot.hot_reload]
  /\ IF ~boot.dir_exists
       THEN UNCHANGED <<models, watcher>>
       ELSE /\ models' = LoadedFrom(files)
            /\ watcher' = IF boot.hot_reload THEN WatcherIdle ELSE watcher
  /\ UNCHANGED <<readers, reloader, handler, aborted, files, lastVer,
                 reloadedVer>>
  /\ UNCHANGED <<conf, expVars, lockVars, lateVars, timeVars>>
  /\ UNCHANGED <<schedVars, metVars>>

\* start_watcher's thread function after sleep_for: while (running_) and
\* if (!running_) break, else check_for_changes begins
WatcherWake ==
  \/ boot.running /\ WatcherTick
  \/ /\ ~boot.running
     /\ ~aborted
     /\ watcher.pc = "sleep"
     /\ watcher' = [WatcherIdle EXCEPT !.pc = "exited"]
     /\ UNCHANGED <<models, readers, reloader, handler, aborted, files,
                    lastVer, reloadedVer>>
     /\ UNCHANGED <<schedVars, metVars, auxVars>>

\* stop_watcher(): if (running_) { running_ = false; if joinable, join }
StopWatcherBegin_KeepsFlag ==
  /\ ~aborted
  /\ boot.pc = "initialized"
  /\ boot.stop = "idle"
  /\ boot.stops < MaxStops
  /\ boot' = IF boot.running /\ watcher.pc \notin {"off", "joined"}
               THEN [boot EXCEPT !.stop = "join"]
               ELSE [boot EXCEPT !.stops = @ + 1]
  /\ UNCHANGED <<conf, expVars, lockVars, lateVars, timeVars>>
  /\ UNCHANGED <<schedVars, regVars, metVars>>
StopWatcherBegin ==
  /\ ~aborted
  /\ boot.pc = "initialized"
  /\ boot.stop = "idle"
  /\ boot.stops < MaxStops
  /\ boot' = IF boot.running /\ watcher.pc \notin {"off", "joined"}
               THEN [boot EXCEPT !.running = FALSE, !.stop = "join"]
               ELSE [boot EXCEPT !.running = FALSE, !.stops = @ + 1]
  /\ UNCHANGED <<conf, expVars, lockVars, lateVars, timeVars>>
  /\ UNCHANGED <<schedVars, regVars, metVars>>

\* watcher_thread_.join() returns, and stop_watcher() with it
StopWatcherJoin ==
  /\ ~aborted
  /\ boot.stop = "join"
  /\ watcher.pc = "exited"
  /\ watcher' = [watcher EXCEPT !.pc = "joined"]
  /\ boot' = [boot EXCEPT !.stop = "idle", !.stops = @ + 1]
  /\ UNCHANGED <<models, readers, reloader, handler, aborted, files, lastVer,
                 reloadedVer>>
  /\ UNCHANGED <<conf, expVars, lockVars, lateVars, timeVars>>
  /\ UNCHANGED <<schedVars, metVars>>

\* files come and go once the directory is there
EnvAfterBoot == boot.pc = "initialized" /\ EnvStep

NextBoot ==
  \/ Initialize
  \/ EnvAfterBoot
  \/ WatcherStep

SpecBoot == InitBoot /\ [][NextBoot]_vars

\* C30: when hot reload is configured the watcher is running once
\* initialize() has returned, whether the models directory existed or
\* initialize() had to create it.
C30_WatcherRunsAfterInitialize ==
  (boot.pc = "initialized" /\ boot.hot_reload) => watcher.pc # "off"

(***************************************************************************)
(* Watcher stop specification: initialize(), the watcher thread with its   *)
(* running_ test, and stop_watcher() called up to MaxStops times.          *)
(***************************************************************************)
WatcherScan ==
  \/ \E name \in Models, cached \in BOOLEAN : WatcherStat(name, cached)
  \/ WatcherCompare
  \/ WatcherCreate
  \/ WatcherCommit
  \/ WatcherScanRemoved
  \/ WatcherErase

WatcherThread ==
  \/ WatcherWake
  \/ WatcherScan

InitStopWatch == InitBoot

NextStopWatch ==
  \/ Initialize
  \/ EnvAfterBoot
  \/ WatcherThread
  \/ StopWatcherBegin
  \/ StopWatcherJoin

\* the watcher thread is scheduled (its sleep and its file-system and backend
\* calls end) and so is the thread inside stop_watcher()
FairSpecStopWatch ==
  /\ InitStopWatch /\ [][NextStopWatch]_vars
  /\ WF_vars(WatcherThread)
  /\ WF_vars(StopWatcherJoin)

\* stop_watcher() has returned at least once and no call is in progress
WatcherStopped == boot.stops >= 1 /\ boot.stop = "idle"

ReaderStep ==
  \/ \E op \in ReadOps, name \in Models : ReadCall(op, name)
  \/ \E admit \in BOOLEAN : ReadLockShared(admit)
  \/ ReadUnblock
  \/ ReadReturn

InitLock == InitReg

NextLock ==
  \/ ReaderStep
  \/ ReloadStep
  \/ HandlerStep

SpecLock == InitLock /\ [][NextLock]_vars

\* C24: a run_inference in progress (the handler holds the shared lock across
\* the backend call) never blocks has(), count(), get() or list(), also when
\* a writer is waiting for the lock.
C24_InferenceNeverBlocksReads ==
  ~(reader.pc = "blocked" /\ "handler" \in readers)

(***************************************************************************)
(* Infer specification: handle_infer calls while artifacts come and go and *)
(* reload() is called; no watcher.                                         *)
(***************************************************************************)
InitInfer == InitReg

NextInfer ==
  \/ EnvStep
  \/ ReloadStep
  \/ HandlerStep

SpecInfer == InitInfer /\ [][NextInfer]_vars

\* C25 as stated: a POST /v1/models/{name}/infer whose name is not in the
\* registry answers 404 with a message holding the name, whatever the body.
C25_UnknownModelIs404 ==
  [][\A name \in Models, body \in Bodies :
       (HandleInferBegin(name, body) /\ models[name] = NoEntry)
         => /\ handler'.status = 404
            /\ handler'.message = "Model not found: " \o name]_vars

\* C25 amended: the same for a body that parses as JSON and has 'inputs';
\* any other body answers 400 before the registry is consulted.
C25_UnknownModelIs404AfterBodyChecks ==
  [][\A name \in Models, body \in Bodies :
       (HandleInferBegin(name, body) /\ models[name] = NoEntry)
         => IF body = "ok"
              THEN /\ handler'.status = 404
                   /\ handler'.message = "Model not found: " \o name
                   /\ handler'.pc = "idle"
              ELSE /\ handler'.status = 400
                   /\ handler'.pc = "idle"]_vars

\* handle_infer has answered 404 for the unknown name b
C25_Witness ==
  /\ handler.pc = "idle"
  /\ handler.status = 404
  /\ handler.message = "Model not found: b"
  /\ models["b"] = NoEntry

(***************************************************************************)
(* Registry and handler claims                                             *)
(***************************************************************************)
\* C7: once reload(m) has returned true (and the file has not been deleted
\* since), a run_inference for m finds an entry and runs on a session read
\* from the reloaded file version or a later one.
C7_ReloadVisible ==
  (handler.pc \in {"running", "respond"} /\ handler.floor > 0)
    => handler.ver >= handler.floor

\* a load_model call of reload() / of the watcher is about to fail: the
\* backend rejects the artifact, or the mtime cannot be read
ReloadLoadFails ==
  \/ reloader.pc = "create" /\ ~CanCreateSession(reloader.name)
  \/ reloader.pc = "commit" /\ files[reloader.name] = NoFile

WatcherLoadFails ==
  \/ watcher.pc = "create" /\ ~CanCreateSession(watcher.name)
  \/ watcher.pc = "commit" /\ files[watcher.name] = NoFile

\* C8: the step in which a load fails leaves models_ exactly as it was, and
\* reload() reports false.
C8_FailedLoadKeepsMap ==
  [][/\ (ReloadLoadFails /\ reloader' # reloader)
          => (models' = models /\ reloader'.result = "false")
     /\ (WatcherLoadFails /\ watcher' # watcher)
          => models' = models]_vars

\* a reload failed on the mtime read while the previous entry was in place,
\* and the entry is still there
C8_Witness ==
  /\ reloader.result = "false"
  /\ reloader.fail = "mtime"
  /\ \E n \in Models : Has(n) /\ files[n] = NoFile

\* C9: while a run_inference call is inside the backend, the entry it runs
\* on is the one in the map: not replaced, not erased.
C9_NoSwapUnderReader ==
  handler.pc = "running" =>
    /\ models[handler.name].session = handler.session
    /\ models[handler.name].ver = handler.ver

\* a reload of the same model holds a new session and waits for the lock
\* while the inference runs on the old one
C9_Witness ==
  /\ handler.pc = "running"
  /\ reloader.pc = "commit"
  /\ reloader.name = handler.name
  /\ reloader.sess.id # handler.session

\* C10: handle_infer answers 200 only for a response with success = true.
C10_OkOnlyOnSuccess ==
  handler.status = 200 => Success(handler.resp)

\* C11: POST /v1/models/{name}/reload answers 404 only when the name is not
\* in the registry, 500 when the name is present but the load from disk
\* fails, and 200 only when a newly loaded entry was swapped in.
C11_ReloadStatusByCause ==
  reloader.result # "none" =>
    /\ ReloadStatus(reloader.result) = 404 => reloader.fail = "absent"
    /\ reloader.fail \in {"backend", "mtime"}
         => ReloadStatus(reloader.result) = 500
    /\ ReloadStatus(reloader.result) = 200
         => reloader.fail = "none"

\* C13: run_inference for a name that is not in the map returns the
\* "Model not found: <name>" response (success = false) in one step: the
\* backend is not entered (no read lock is held across a session call), no
\* exception leaves the call, and models_ is unchanged.
C13_NotFoundResponse ==
  [][(handler.pc = "call" /\ models[handler.name] = NoEntry
        /\ handler' # handler)
       => /\ handler'.pc = "respond"
          /\ handler'.resp = "not_found"
          /\ ~Success(handler'.resp)
          /\ handler'.name = handler.name
          /\ readers' = readers
          /\ models' = models]_vars

\* the name passed handle_infer's has() check, the watcher erased the entry,
\* and run_inference answered not found
C13_Witness ==
  /\ handler.pc = "respond"
  /\ handler.resp = "not_found"
  /\ models[handler.name] = NoEntry

(***************************************************************************)
(* Hot-reload specification: the watcher thread and a reload() caller      *)
(* while files are written and deleted, with no inference in progress.     *)
(* The watcher thread runs check_for_changes every watch_interval_ms and   *)
(* each step of a scan terminates; a reload() call that has begun runs to  *)
(* its return.                                                             *)
(***************************************************************************)
NextWatch ==
  \/ EnvStep
  \/ WatcherStep
  \/ ReloadStep

ReloadRuns == ReloadCreate \/ ReloadCommit

InitWatch == InitReg /\ config.enabled

FairSpecWatch ==
  /\ InitWatch
  /\ [][NextWatch]_vars
  /\ WF_vars(WatcherStep)
  /\ WF_vars(ReloadRuns)

\* C16: a loadable file that stays in the directory is eventually the one
\* the entry under its stem was loaded from: a new file is registered, an
\* overwritten one replaces the entry, for every interleaving of the writes
\* with the watcher's scan and with reload() (as long as the watcher runs).
C16_FileEventuallyLoaded ==
  \A name \in Artifacts, v \in 1..MaxVer :
    (files[name] = [ver |-> v, good |-> TRUE])
      ~> (models[name].ver = v \/ files[name].ver # v \/ aborted)

\* C17: an entry whose file is deleted and stays deleted is eventually
\* removed (as long as the watcher runs), and a step that removes an entry
\* removes none whose file exists.
C17_DeletedIsRemoved ==
  /\ \A name \in Models :
       (Has(name) /\ files[name] = NoFile)
         ~> (~Has(name) \/ files[name] # NoFile \/ aborted)
  /\ [][\A name \in Models :
          (models[name] # NoEntry /\ models'[name] = NoEntry)
            => files[name] = NoFile]_vars

\* C19: the watcher thread is never terminated by an error during a scan (a
\* failed load, a file vanishing between the directory listing and the read
\* of its mtime): the error is caught and the next tick follows.
C19_WatcherSurvivesScanErrors ==
  /\ watcher.pc # "aborted"
  /\ ~aborted

(***************************************************************************)
(* Metrics specification: the server's threads recording requests.         *)
(***************************************************************************)
RecordStep ==
  \/ \E t \in Threads, endpoint \in Endpoints, method \in Methods,
        status \in Statuses, latency \in Latencies :
          RecordRequestBegin(t, endpoint, method, status, latency)
  \/ \E t \in Threads : RecordRequestTotal(t)
  \/ \E t \in Threads : RecordRequestErrors(t)

ObserveStep ==
  \/ \E t \in Threads : ObserveSum(t)
  \/ \E t \in Threads : ObserveCount(t)
  \/ \E t \in Threads : ObserveBucket(t)

NextMet ==
  \/ RecordStep
  \/ ObserveStep

InitMet == InitReg /\ config.enabled

SpecMet == InitMet /\ [][NextMet]_vars

(***************************************************************************)
(* Export specification: a scrape of /metrics while requests are recorded. *)
(***************************************************************************)
ExportStep ==
  \/ ExportBegin
  \/ ExportBucket
  \/ ExportSum
  \/ ExportCount

\* the requests recorded during the scrape are successful health checks
RecordDuringExport ==
  \/ \E t \in Threads, latency \in Latencies :
          RecordRequestBegin(t, "/health", "GET", 200, latency)
  \/ \E t \in Threads : RecordRequestTotal(t)
  \/ \E t \in Threads : RecordRequestErrors(t)

NextExport ==
  \/ RecordDuringExport
  \/ ObserveStep
  \/ ExportStep

InitExportSpec == InitMet

SpecExport == InitExportSpec /\ [][NextExport]_vars

\* C22: every completed export shows a consistent snapshot of the request
\* latency histogram: the le="+Inf" bucket equals _count and the bucket
\* values do not decrease in bound order, even while observe() runs.
C22_ExportIsSnapshot ==
  exporter.pc = "done" =>
    /\ exporter.buckets[Len(LatencyBuckets)] = exporter.count
    /\ \A i \in 1..(Len(LatencyBuckets) - 1) :
         exporter.buckets[i] <= exporter.buckets[i + 1]

(***************************************************************************)
(* Metrics claims                                                          *)
(***************************************************************************)
\* no record_request call is in flight
Quiescent == \A t \in Threads : caller[t].pc = "idle"

\* C14: when no record_request call is in flight, requests_total equals the
\* sum of the per-(method, endpoint, status) counters, whatever the
\* interleaving of the calls.
C14_TotalIsSumOfCounters ==
  Quiescent =>
    requests_total = SumOver(request_counts, DOMAIN request_counts)

\* both threads have recorded requests, under two different keys
C14_Witness ==
  /\ Quiescent
  /\ \A t \in Threads : caller[t].calls >= 1
  /\ Cardinality(DOMAIN request_counts) = 2
  /\ requests_total >= 3

\* value <= upper bound, on the exact values
AtMost(value, upper_bound) ==
  upper_bound.inf \/ 2 * value.ns + value.half <= 2 * upper_bound.ns

Observations == SumOver(observed, Latencies)

\* every bucket counts the observations at or below its bound; the +Inf
\* bucket and count equal the number of observations
BucketsExact ==
  /\ \A i \in 1..Len(LatencyBuckets) :
       request_latency.buckets[i] =
         SumOver([v \in Latencies |->
                    IF AtMost(v, LatencyBuckets[i]) THEN observed[v] ELSE 0],
                 Latencies)
  /\ request_latency.buckets[Len(LatencyBuckets)] = Observations
  /\ request_latency.count = Observations

\* C15 as stated: after the observe() calls have completed the buckets and
\* count are exact and sum equals the total of the observed values (compared
\* in half nanoseconds).
C15_HistogramSumIsTotal ==
  Quiescent =>
    /\ BucketsExact
    /\ 2 * request_latency.sum =
         SumOver([v \in Latencies |-> (2 * v.ns + v.half) * observed[v]],
                 Latencies)

\* C15 amended: the buckets and count are exact, and sum is the total of the
\* observed values each truncated to whole nanoseconds.
C15_HistogramSumOfNanos ==
  Quiescent =>
    /\ BucketsExact
    /\ request_latency.sum =
         SumOver([v \in Latencies |-> v.ns * observed[v]], Latencies)

\* each of the three latencies was observed, by calls of both threads
C15_Witness ==
  /\ Quiescent
  /\ \A v \in Latencies : observed[v] >= 1
  /\ \A t \in Threads : caller[t].calls >= 1
  /\ request_latency.count = 3

(***************************************************************************)
(* Config specification: a Config is built, serialized and parsed back.    *)
(***************************************************************************)
InitConfSpec ==
  /\ config \in [enabled : {TRUE}, max_batch_size : {1}, min_batch_size : {1}]
  /\ files = [name \in Models |-> IF name = "a" THEN FileAtInit ELSE NoFile]
  /\ InitScheduler
  /\ InitRegistry
  /\ InitMetrics
  /\ InitTime
  /\ InitExport
  /\ conf = ConfBuilt
  /\ InitBooted
  /\ InitReader
  /\ InitLate

SpecConf == InitConfSpec /\ [][NextConf]_vars

\* C23: parse(serialize(c)) equals c in every field of the schema (server,
\* inference, batching, models, metrics, logging).
C23_ConfigRoundTrip ==
  conf.pc = "parsed" =>
    \A sec \in Sections : \A key \in DOMAIN DefaultConfig[sec] :
      conf.parsed[sec][key] = conf.c[sec][key]

(***************************************************************************)
(* The collector alone: record_batch calls and exports                     *)
(***************************************************************************)
\* record_batch called on the collector with any batch size
RecordBatch(batch_size) ==
  /\ Len(window.calls) < MaxRecords
  /\ batches_total' = batches_total + 1
  /\ window' = Recorded(window, batch_size)
  /\ UNCHANGED <<config, running, executor_thread, wpc, pending_requests,
                 batch, todo, draining, reqModel, promise, mainPc, enqueued,
                 dispatched, runOrder>>
  /\ UNCHANGED <<expVars, bootVars, lockVars, timeVars, objVars>>
  /\ UNCHANGED <<regVars, metVars>>

RecordAnyBatch == \E batch_size \in 1..MaxBatchCfg : RecordBatch(batch_size)

InitWindow == Init

NextWindow == RecordAnyBatch \/ ExportAverage

SpecWindow == InitWindow /\ [][NextWindow]_vars

\* the last Min(k, WindowCap) sizes of the history, in arrival order
LastOf(q) ==
  IF Len(q) <= WindowCap THEN q ELSE SubSeq(q, Len(q) - WindowCap + 1, Len(q))

WindowKept ==
  /\ Len(window.sizes) <= WindowCap
  /\ window.sizes = LastOf(window.calls)
  /\ batches_total = Len(window.calls)

Deltas == (1..MaxDelta) \cup {-d : d \in 1..MaxDelta}

GaugeSetAny == \E v \in 0..MaxDelta : GaugeSet(v)

GaugeCallAny == \E t \in GaugeThread, delta \in Deltas : GaugeCall(t, delta)

GaugeLoop(t) ==
  \/ GaugeLoad(t)
  \/ GaugeCasWin(t)
  \/ \E spurious \in BOOLEAN : GaugeCasFail(t, spurious)

GaugeStep == \E t \in GaugeThread : GaugeLoop(t)

\* the gauge of a collector whose server has just been constructed
InitGauge ==
  /\ Init
  /\ config = [enabled |-> TRUE, max_batch_size |-> 1, min_batch_size |-> 1]

NextGauge == GaugeSetAny \/ GaugeCallAny \/ GaugeStep

\* every thread keeps being scheduled, and compare_exchange_weak does not
\* keep failing while value_ holds the expected value
FairSpecGauge ==
  /\ InitGauge
  /\ [][NextGauge]_vars
  /\ \A t \in GaugeThread : WF_vars(GaugeLoop(t)) /\ SF_vars(GaugeCasWin(t))

RECURSIVE SumWins(_)
SumWins(T) ==
  IF T = {} THEN 0
  ELSE LET t == CHOOSE x \in T : TRUE IN gauge.wins[t] + SumWins(T \ {t})

GaugeQuiet == \A t \in GaugeThread : gauge.th[t].pc = "out"

\* C34: inc/dec lose no update: the value is the initial value plus the
\* deltas of the completed calls (so, once all calls have completed, plus
\* all increments minus all decrements); a call's exchange is refused for a
\* changed value at most as often as competing calls have succeeded, and
\* every call completes.
C34_GaugeLosesNoUpdate ==
  /\ [](gauge.value = gauge.init + gauge.applied)
  /\ [](GaugeQuiet => SumWins(GaugeThread) = gauge.calls)
  /\ [](\A t \in GaugeThread :
          gauge.th[t].lost <= SumWins(GaugeThread \ {t}))
  /\ \A t \in GaugeThread : (gauge.th[t].pc # "out") ~> (gauge.th[t].pc = "out")

\* all calls have completed, one of them after its exchange was refused
\* for a changed value
C34_Witness ==
  /\ GaugeQuiet
  /\ gauge.calls = MaxGaugeCalls
  /\ gauge.refused >= 1
  /\ gauge.init = 1
  /\ gauge.value = gauge.init + 2

(***************************************************************************)
(* run_inference alone                                                     *)
(***************************************************************************)
OutputTypes ==
  UNION {[1..n -> ElementTypes] : n \in 1..MaxOutputs}

RunCallAny == \E types \in OutputTypes, throws \in BOOLEAN : RunCall(types, throws)

InitRun ==
  /\ Init
  /\ config = [enabled |-> TRUE, max_batch_size |-> 1, min_batch_size |-> 1]

NextRun == RunCallAny \/ SessionRun \/ ExtractOne \/ ExtractDone \/ RunReturn

SpecRun == InitRun /\ [][NextRun]_vars

InvolvesUnknownType ==
  \E i \in 1..Len(run.types) : onnx_type_to_string(run.types[i]) = "unknown"

\* C35: a run that involves a tensor whose element type is outside the
\* dtype table ("unknown") returns success = false, never success = true
\* with an empty or partial output.
C35_UnknownTypeRejected ==
  (run.pc = "returned" /\ InvolvesUnknownType) => ~run.response.success

(***************************************************************************)
(* The registry's entries and the files they were loaded from              *)
(***************************************************************************)
\* C36: for every registry entry the stored last-modified time is the mtime
\* of the file version the entry's session was loaded from, so that the
\* watcher's comparison is true whenever the file on disk is newer than the
\* loaded session, also when the file was rewritten during a load.
C36_MtimeOfLoadedVersion ==
  \A n \in Models :
    Has(n) =>
      /\ models[n].mtime = models[n].ver
      /\ (files[n] # NoFile /\ files[n].ver > models[n].ver)
            => models[n].mtime # files[n].ver

\* C37: the watcher erases an entry only if the entry's file is missing at
\* the moment of the erase: an entry whose file exists again (and which may
\* have been reloaded since the existence check) is not removed.
C37_EraseOnlyMissing ==
  [][\A n \in Models : (Has(n) /\ models'[n] = NoEntry) => files[n] = NoFile]_vars

\* both models are loaded from their files when the registry starts
InitFrame ==
  /\ config = [enabled |-> TRUE, max_batch_size |-> 1, min_batch_size |-> 1]
  /\ files = [name \in Models |-> FileAtInit]
  /\ InitScheduler
  /\ InitRegistry
  /\ InitMetrics
  /\ InitTime
  /\ InitExport
  /\ InitConf
  /\ InitBooted
  /\ InitReader
  /\ InitLate

\* files of both models come and go; a file the backend rejects never
\* reaches the registry's map, so only loadable files are written here
EnvStepAny ==
  \/ \E name \in Models : FileWrite(name, TRUE)
  \/ \E name \in Models : FileDelete(name)

\* the watcher thread loads new files, reloads changed ones and removes the
\* entries of deleted ones
NextFrame == EnvStepAny \/ WatcherStep

SpecFrame == InitFrame /\ [][NextFrame]_vars

Changed == {n \in Models : models'[n] # models[n]}

\* C38: loading, reloading or removing a model leaves every other registry
\* entry (session, schema, stored mtime) unchanged, and has, get and the
\* membership in list of the other names are the same before and after;
\* no other step changes an entry.
C38_OtherEntriesUnchanged ==
  [][/\ watcher.pc = "commit" => Changed \subseteq {watcher.name}
     /\ watcher.pc = "erase" => Changed \subseteq watcher.to_remove
     /\ watcher.pc \notin {"commit", "erase"} => Changed = {}
     /\ \A n \in Models \ Changed :
          /\ ReadResult("has", n)' = ReadResult("has", n)
          /\ ReadResult("get", n)' = ReadResult("get", n)]_vars

\* model a was removed while model b keeps the entry it was reloaded to
C38_Witness ==
  /\ ~Has("a")
  /\ Has("b")
  /\ models["b"].ver >= 2
  /\ watcher.pc = "sleep"

(***************************************************************************)
(* main() from start_async() to its return                                 *)
(***************************************************************************)
InitMain ==
  /\ Init
  /\ config = [enabled |-> TRUE, max_batch_size |-> 1, min_batch_size |-> 1]

ServerThread == ServerSetRunning \/ \E success \in BOOLEAN : ServerListen(success)

MainThread == StartAsync \/ MainLoopTest \/ MainLoopBody \/ HttpStop \/ HttpJoin

NextMain == SignalHandler \/ ServerThread \/ MainThread

SpecMain == InitMain /\ [][NextMain]_vars

\* C39: the main thread begins the shutdown sequence only after a shutdown
\* signal was received or the HTTP server stopped or failed to listen, never
\* merely because the server thread has not yet set its running flag.
C39_ShutdownHasCause ==
  [][(srv.main = "test" /\ srv'.main = "shutdown") =>
       (srv.signal \/ srv.thread \in {"failed", "returned"})]_vars

(***************************************************************************)
(* A ThreadPool alone                                                      *)
(***************************************************************************)
InitPool ==
  /\ Init
  /\ config = [enabled |-> TRUE, max_batch_size |-> 1, min_batch_size |-> 1]

PoolWorkerStep ==
  \E w \in PoolWorker :
    PoolWorkerLocked(w) \/ PoolWorkerRun(w) \/ PoolSpuriousWake(w)

NextPool ==
  \/ PoolSubmit
  \/ PoolNotifyOne
  \/ PoolWorkerStep
  \/ PoolShutdown
  \/ PoolNotifyAll
  \/ PoolJoin

SpecPool == InitPool /\ [][NextPool]_vars

\* C40: every task passed to submit()/enqueue() is either rejected (the
\* pool is stopped, the queue stays as it is) or executed exactly once by
\* exactly one worker; the shutdown() call that stops the pool returns only
\* after every accepted task has run and all workers have exited, with no
\* task pending; a later shutdown() changes nothing.
C40_PoolRunsEachTaskOnce ==
  /\ [](\A k \in 1..MaxTasks : pool.ran[k] <= 1)
  /\ [](\A w1, w2 \in PoolWorker :
          (w1 # w2 /\ pool.worker[w1].pc = "run" /\ pool.worker[w2].pc = "run")
            => pool.worker[w1].task # pool.worker[w2].task)
  /\ [](\A w \in PoolWorker :
          pool.worker[w].pc = "run" => pool.ran[pool.worker[w].task] = 0)
  /\ [](pool.sd = "returned" =>
          /\ \A k \in 1..pool.accepted : pool.ran[k] = 1
          /\ \A w \in PoolWorker : pool.worker[w].pc = "exited"
          /\ pool.tasks = <<>>)
  /\ [][pool'.rejected # pool.rejected =>
          (pool.stop /\ pool'.tasks = pool.tasks /\ pool'.accepted = pool.accepted)]_vars
  /\ [][pool'.accepted # pool.accepted =>
          (~pool.stop /\ pool'.tasks = Append(pool.tasks, pool'.accepted))]_vars
  /\ [][pool'.again # pool.again =>
          pool' = [pool EXCEPT !.again = pool'.again]]_vars

\* shutdown() has returned after three tasks were passed in, two accepted
\* and run and one rejected, and was called again
C40_Witness ==
  /\ pool.sd = "returned"
  /\ pool.accepted = 2
  /\ pool.rejected = 1
  /\ pool.done = {1, 2}
  /\ pool.again = 1

=============================================================================
